---- MODULE Spec2Model ----
(***************************************************************************)
(* Model of the bridge tournament pairing and scoring engine               *)
(* (scoring.py, movements.py, and the round handlers of api_routes.py and  *)
(* bridge_score.py).                                                       *)
(*                                                                         *)
(* Pure functions are operators; each has an action that applies it to an  *)
(* input drawn from a bounded set and records the call in fn/args/ret;     *)
(* caller holds the argument objects of a pairing call as the call leaves   *)
(* them.                                                                   *)
(* Text is a sequence of one-character strings, so that formatting and     *)
(* parsing are computed and not assumed.                                   *)
(***************************************************************************)
EXTENDS Integers, Sequences, FiniteSets, TLC

VARIABLES fn, args, ret, caller, tournament, rounds, board_results, match_results,
          response

vars ==
  <<fn, args, ret, caller, tournament, rounds, board_results, match_results, response>>

(***************************************************************************)
(* Bounds of the model                                                     *)
(***************************************************************************)
MaxTricks == 7
MaxUnder == 5
\* calculate_imp is applied to the scores ScoreUnit * k, |k| <= MaxScoreSteps
ScoreUnit == 45
MaxScoreSteps == 50
\* calculate_vp is applied to margins -MaxMargin..MaxMargin and 0..MaxBoardsPlayed boards
MaxMargin == 120
MaxBoardsPlayed == 16
\* calculate_vulnerability is applied to the boards 1..MaxBoard
MaxBoard == 128
\* round_robin is applied to 0..MaxTeams teams, rounds 1..MaxTeams + 2 are requested
MaxTeams == 9
\* tournaments have 2..MaxEntries entries and 1..MaxBoardsPerRound boards a round
MaxEntries == 3
MaxBoardsPerRound == 1
\* advance_round is requested for the rounds 0..MaxRoundNumber and inserts at most
\* MaxNewRows rows after the setup; scores are submitted for the rounds
\* 0..MaxSubmitRound and at most MaxResults board results are stored
MaxRoundNumber == 4
MaxNewRows == 2
MaxSubmitRound == 1
MaxResults == 2
\* Swiss rounds are computed for rosters of 0..MaxSwissTeams teams whose totals
\* are 0..MaxStanding or LeadStanding, after 0..MaxPlayedRounds rounds played;
\* rosters of more than MaxFreeTeams teams have their teams in standings order
MaxSwissTeams == 8
MaxFreeTeams == 4
MaxStanding == 1
LeadStanding == 1001
MaxPlayedRounds == 3
\* unseeded knockout brackets are drawn for up to MaxShuffled teams
MaxShuffled == 4
\* the entries of a Swiss tournament and the rows of its rounds table
MaxSwissEntries == 4
MaxSwissRows == 4
\* floating point values are kept in units of 1/FP, powers with PowBits binary digits
FP == 1000
PowBits == 10

(***************************************************************************)
(* Results of a call: a returned value or a raised exception               *)
(***************************************************************************)
Return(v) == [kind |-> "return", value |-> v, exc |-> "none"]

Raise(e) == [kind |-> "raise", value |-> 0, exc |-> e]

NoCall == [kind |-> "none", value |-> 0, exc |-> "none"]

(***************************************************************************)
(* Text helpers: str(int), int(str), str.upper, str.lower, str.split       *)
(***************************************************************************)
DigitChars == <<"0", "1", "2", "3", "4", "5", "6", "7", "8", "9">>

Digits == {DigitChars[i] : i \in 1..10}

DigitVal(c) == (CHOOSE i \in 1..10 : DigitChars[i] = c) - 1

RECURSIVE NatToStr(_)
NatToStr(n) ==
  IF n < 10 THEN <<DigitChars[n + 1]>>
  ELSE NatToStr(n \div 10) \o <<DigitChars[(n % 10) + 1]>>

IntToStr(n) == IF n < 0 THEN <<"-">> \o NatToStr(-n) ELSE NatToStr(n)

RECURSIVE DigitsToNat(_)
DigitsToNat(s) ==
  IF s = <<>> THEN 0
  ELSE 10 * DigitsToNat(SubSeq(s, 1, Len(s) - 1)) + DigitVal(s[Len(s)])

AllDigits(s) == s # <<>> /\ \A i \in 1..Len(s) : s[i] \in Digits

\* int(tricks_str): an optional sign followed by digits, anything else raises
IsIntLiteral(s) ==
  \/ AllDigits(s)
  \/ Len(s) >= 2 /\ s[1] \in {"-", "+"} /\ AllDigits(Tail(s))

int(s) ==
  IF s[1] = "-" THEN 0 - DigitsToNat(Tail(s))
  ELSE IF s[1] = "+" THEN DigitsToNat(Tail(s))
  ELSE DigitsToNat(s)

LowerChars == <<"c", "d", "h", "s", "n", "t", "x", "v", "u", "l", "m", "z">>

UpperChars == <<"C", "D", "H", "S", "N", "T", "X", "V", "U", "L", "M", "Z">>

UpperChar(c) ==
  IF \E i \in 1..Len(LowerChars) : LowerChars[i] = c
  THEN UpperChars[CHOOSE i \in 1..Len(LowerChars) : LowerChars[i] = c]
  ELSE c

LowerChar(c) ==
  IF \E i \in 1..Len(UpperChars) : UpperChars[i] = c
  THEN LowerChars[CHOOSE i \in 1..Len(UpperChars) : UpperChars[i] = c]
  ELSE c

upper(s) == [i \in 1..Len(s) |-> UpperChar(s[i])]

lower(s) == [i \in 1..Len(s) |-> LowerChar(s[i])]

RECURSIVE SplitFrom(_, _, _, _)
SplitFrom(s, i, cur, acc) ==
  IF i > Len(s)
  THEN (IF cur = <<>> THEN acc ELSE Append(acc, cur))
  ELSE IF s[i] = " "
       THEN SplitFrom(s, i + 1, <<>>, IF cur = <<>> THEN acc ELSE Append(acc, cur))
       ELSE SplitFrom(s, i + 1, Append(cur, s[i]), acc)

\* result.strip().split(): the maximal runs of non-blank characters
split(s) == SplitFrom(s, 1, <<>>, <<>>)

RECURSIVE Join(_)
Join(toks) ==
  IF toks = <<>> THEN <<>>
  ELSE IF Len(toks) = 1 THEN toks[1]
  ELSE toks[1] \o <<" ">> \o Join(Tail(toks))

(***************************************************************************)
(* scoring.py: calculate_bridge_score                                      *)
(***************************************************************************)
NoMatch == [ok |-> FALSE, level |-> 0, suit |-> "", dbl |-> 0]

\* number of leading characters of s that belong to set cs
RECURSIVE LeadingRun(_, _)
LeadingRun(s, cs) ==
  IF s = <<>> \/ s[1] \notin cs THEN 0 ELSE 1 + LeadingRun(Tail(s), cs)

Min(a, b) == IF a <= b THEN a ELSE b

\* re.match(r"(\d+)(NT|[CDHS])(X{0,2})", contract_str.upper()):
\* anchored at the start only, whatever follows the match is ignored
re_match(contract_str) ==
  LET u == upper(contract_str)
      k == LeadingRun(u, Digits)
      rest == SubSeq(u, k + 1, Len(u))
      isNT == Len(rest) >= 2 /\ rest[1] = "N" /\ rest[2] = "T"
      isSuit == Len(rest) >= 1 /\ rest[1] \in {"C", "D", "H", "S"}
      after == SubSeq(rest, (IF isNT THEN 3 ELSE 2), Len(rest))
  IN  IF k = 0 \/ ~(isNT \/ isSuit) THEN NoMatch
      ELSE [ok |-> TRUE,
            level |-> DigitsToNat(SubSeq(u, 1, k)),
            suit |-> IF isNT THEN "NT" ELSE rest[1],
            dbl |-> Min(2, LeadingRun(after, {"X"}))]

multiplier_of(dbl) == IF dbl = 1 THEN 2 ELSE IF dbl = 2 THEN 4 ELSE 1

base_score(level, suit, multiplier) ==
  (IF suit \in {"C", "D"} THEN level * 20
   ELSE IF suit \in {"H", "S"} THEN level * 30
   ELSE IF suit = "NT" THEN level * 30 + 10
   ELSE 0) * multiplier

game_bonus_above_100(base, vulnerable) ==
  IF base > 100 THEN (IF vulnerable THEN 500 ELSE 300) ELSE 50

game_bonus(base, vulnerable) ==
  IF base >= 100 THEN (IF vulnerable THEN 500 ELSE 300) ELSE 50

insult_bonus(multiplier) ==
  IF multiplier = 2 THEN 50 ELSE IF multiplier = 4 THEN 100 ELSE 0

slam_bonus(level, vulnerable) ==
  IF level = 6 THEN (IF vulnerable THEN 750 ELSE 500)
  ELSE IF level = 7 THEN (IF vulnerable THEN 1500 ELSE 1000)
  ELSE 0

overtrick_value(suit, multiplier, vulnerable) ==
  IF multiplier = 2 THEN (IF vulnerable THEN 200 ELSE 100)
  ELSE IF multiplier = 4 THEN (IF vulnerable THEN 400 ELSE 200)
  ELSE IF suit \in {"C", "D"} THEN 20
  ELSE IF suit \in {"H", "S", "NT"} THEN 30
  ELSE 0

made_score(level, suit, multiplier, vulnerable, tricks) ==
  LET base == base_score(level, suit, multiplier)
  IN  base + game_bonus(base, vulnerable) + slam_bonus(level, vulnerable)
        + overtrick_value(suit, multiplier, vulnerable) * (tricks - level)
        + insult_bonus(multiplier)

doubled_penalty_flat(undertricks, vulnerable) ==
  IF ~vulnerable
  THEN (IF undertricks = 1 THEN 100 ELSE 300 + (undertricks - 2) * 200)
  ELSE (IF undertricks = 1 THEN 200 ELSE 500 + (undertricks - 2) * 300)

doubled_penalty(undertricks, vulnerable) ==
  IF ~vulnerable
  THEN (IF undertricks = 1 THEN 100
        ELSE IF undertricks = 2 THEN 300
        ELSE 500 + (undertricks - 3) * 300)
  ELSE (IF undertricks = 1 THEN 200
        ELSE IF undertricks = 2 THEN 500
        ELSE 800 + (undertricks - 3) * 300)

penalty(undertricks, multiplier, vulnerable) ==
  IF multiplier = 1
  THEN undertricks * (IF vulnerable THEN 100 ELSE 50)
  ELSE doubled_penalty(undertricks, vulnerable) * (IF multiplier = 4 THEN 2 ELSE 1)

abs(x) == IF x < 0 THEN 0 - x ELSE x

is_vulnerable(vulnerability) ==
  lower(vulnerability) \in {<<"v">>, <<"v", "u", "l">>}

calculate_bridge_score(result) ==
  LET parts == split(result)
  IN  IF Len(parts) # 3 THEN Raise("AssertionError")
      ELSE
        LET m == re_match(parts[1])
        IN  IF ~m.ok THEN Raise("AssertionError")
            ELSE IF ~IsIntLiteral(parts[3]) THEN Raise("ValueError")
            ELSE
              LET level == m.level
                  multiplier == multiplier_of(m.dbl)
                  tricks == int(parts[3])
                  vulnerable == is_vulnerable(parts[2])
              IN  IF ~(tricks >= level \/ tricks <= -1) THEN Raise("AssertionError")
                  ELSE IF tricks >= level
                       THEN Return(made_score(level, m.suit, multiplier, vulnerable, tricks))
                       ELSE Return(0 - penalty(abs(tricks), multiplier, vulnerable))

(***************************************************************************)
(* Inputs of calculate_bridge_score: the text the caller formats as        *)
(* f"{contract} {vulnerability_str} {result}", well formed or not          *)
(***************************************************************************)
LevelTokens ==
  {<<>>, <<"0">>, <<"1">>, <<"2">>, <<"3">>, <<"4">>, <<"5">>, <<"6">>, <<"7">>,
   <<"8">>, <<"1", "0">>}

DenomTokens ==
  {<<>>, <<"C">>, <<"D">>, <<"H">>, <<"S">>, <<"N", "T">>, <<"h">>, <<"Z">>}

DblTokens == {<<>>, <<"X">>, <<"X", "X">>, <<"X", "X", "X">>}

VulTokens == {<<"n">>, <<"v">>, <<"m">>, <<"v", "u", "l">>}

TricksTokens ==
  {IntToStr(t) : t \in (0 - MaxUnder)..MaxTricks} \cup {<<"x">>, <<"+", "4">>}

\* the shapes of the text: well separated, denomination before level,
\* trailing junk in the contract, a part missing, a part too many, extra blanks
TextShapes == {"plain", "swapped", "trailing", "two", "four", "padded"}

ContractToken(shape, lv, dn, db) ==
  IF shape = "swapped" THEN dn \o lv \o db
  ELSE IF shape = "trailing" THEN lv \o dn \o db \o <<"Z">>
  ELSE lv \o dn \o db

ScoreText(shape, contract, vul, tricks) ==
  IF shape = "two" THEN Join(<<contract, vul>>)
  ELSE IF shape = "four" THEN Join(<<contract, vul, tricks, <<"e">>>>)
  ELSE IF shape = "padded"
       THEN <<" ">> \o contract \o <<" ", " ">> \o vul \o <<" ">> \o tricks \o <<" ">>
       ELSE Join(<<contract, vul, tricks>>)

CallCalculateBridgeScore ==
  /\ fn = "none"
  /\ \E shape \in TextShapes, lv \in LevelTokens, dn \in DenomTokens,
        db \in DblTokens, vul \in VulTokens, tr \in TricksTokens :
       LET contract == ContractToken(shape, lv, dn, db)
           text == ScoreText(shape, contract, vul, tr)
       IN  /\ contract # <<>>
           /\ fn' = "calculate_bridge_score"
           /\ args' = [shape |-> shape, level |-> lv, denom |-> dn, dbl |-> db,
                       vul |-> vul, tricks |-> tr, text |-> text]
           /\ ret' = calculate_bridge_score(text)
           /\ UNCHANGED <<caller, tournament, rounds, board_results, match_results, response>>

(***************************************************************************)
(* scoring.py: calculate_imp                                               *)
(***************************************************************************)
\* the bands of the if / elif chain, band i giving i IMPs
ImpBands ==
  <<<<20, 40>>, <<50, 80>>, <<90, 120>>, <<130, 160>>, <<170, 210>>, <<220, 260>>,
    <<270, 310>>, <<320, 360>>, <<370, 420>>, <<430, 490>>, <<500, 590>>,
    <<600, 740>>, <<750, 890>>, <<900, 1090>>, <<1100, 1290>>, <<1300, 1490>>,
    <<1500, 1740>>, <<1750, 1990>>, <<2000, 2240>>, <<2250, 2490>>, <<2500, 2990>>,
    <<3000, 3490>>, <<3500, 3990>>>>

InBand(diff, i) == ImpBands[i][1] <= diff /\ diff <= ImpBands[i][2]

\* the first branch of the chain that diff satisfies; the final else gives 24
imp_of(diff) ==
  IF diff < 20 THEN 0
  ELSE IF \E i \in 1..Len(ImpBands) : InBand(diff, i)
       THEN CHOOSE i \in 1..Len(ImpBands) : InBand(diff, i)
       ELSE 24

np_sign(x) == IF x > 0 THEN 1 ELSE IF x < 0 THEN 0 - 1 ELSE 0

calculate_imp_unsigned(a, b) == imp_of(abs(a - b))

calculate_imp(a, b) == imp_of(abs(a - b)) * np_sign(a - b)

Scores == {ScoreUnit * k : k \in (0 - MaxScoreSteps)..MaxScoreSteps}

CallCalculateImp ==
  /\ fn = "none"
  /\ \E a \in Scores, b \in Scores :
       /\ fn' = "calculate_imp"
       /\ args' = [a |-> a, b |-> b]
       /\ ret' = Return(calculate_imp(a, b))
       /\ UNCHANGED <<caller, tournament, rounds, board_results, match_results, response>>

(***************************************************************************)
(* scoring.py: calculate_vp.  A float v is the integer part of v * FP.     *)
(***************************************************************************)
RECURSIVE IsqrtIn(_, _, _)
IsqrtIn(x, lo, hi) ==
  IF lo >= hi THEN lo
  ELSE LET mid == (lo + hi + 1) \div 2
       IN  IF mid * mid <= x THEN IsqrtIn(x, mid, hi) ELSE IsqrtIn(x, lo, mid - 1)

\* the integer part of the square root of x
isqrt(x) == IsqrtIn(x, 0, Min(x, 46340))

\* math.sqrt
fsqrt(v) == isqrt(v * FP)

fmul(x, y) == (x * y) \div FP

fdiv(x, y) == (x * FP) \div y

RECURSIVE ipow(_, _)
ipow(base, k) == IF k = 0 THEN FP ELSE fmul(base, ipow(base, k - 1))

\* base ** (f / FP) for 0 <= f < FP, from the binary digits of f / FP
RECURSIVE FracPow(_, _, _)
FracPow(r, f, d) ==
  IF d = 0 \/ f = 0 THEN FP
  ELSE LET h == fsqrt(r)
           g == 2 * f
       IN  IF g >= FP THEN fmul(h, FracPow(h, g - FP, d - 1))
           ELSE FracPow(h, g, d - 1)

\* base ** e
fpow(base, e) == fmul(ipow(base, e \div FP), FracPow(base, e % FP, PowBits))

\* (1 + math.sqrt(5)) / 2 - 1
tau == (FP + fsqrt(5 * FP)) \div 2 - FP

vp_trophy(a, b, num_boards) ==
  LET t == fdiv(3 * abs(a - b) * FP, 15 * fsqrt(num_boards * FP))
  IN  Min(10 * FP, 10 * fdiv(fpow(tau, t), fpow(tau, 3 * FP)))

calculate_vp_same_sign(a, b, num_boards) ==
  IF num_boards = 0 THEN Raise("ZeroDivisionError")
  ELSE LET trophy == vp_trophy(a, b, num_boards)
       IN  IF a > b THEN Return(<<10 * FP + trophy, 10 * FP - trophy>>)
           ELSE Return(<<10 * FP - trophy, 10 * FP - trophy>>)

calculate_vp(a, b, num_boards) ==
  IF num_boards = 0 THEN Raise("ZeroDivisionError")
  ELSE LET trophy == vp_trophy(a, b, num_boards)
       IN  IF a > b THEN Return(<<10 * FP + trophy, 10 * FP - trophy>>)
           ELSE Return(<<10 * FP - trophy, 10 * FP + trophy>>)

CallCalculateVp ==
  /\ fn = "none"
  /\ \E m \in (0 - MaxMargin)..MaxMargin, n \in 0..MaxBoardsPlayed :
       /\ fn' = "calculate_vp"
       /\ args' = [a |-> m, b |-> 0, num_boards |-> n]
       /\ ret' = calculate_vp(m, 0, n)
       /\ UNCHANGED <<caller, tournament, rounds, board_results, match_results, response>>

(***************************************************************************)
(* scoring.py: calculate_vulnerability                                     *)
(***************************************************************************)
Vul == {"NONE", "NS", "EW", "ALL"}

vulnerability_map ==
  <<"NONE", "NS", "EW", "ALL", "NS", "EW", "ALL", "NONE",
    "EW", "ALL", "NONE", "NS", "ALL", "NONE", "NS", "EW">>

calculate_vulnerability_mod15(board_number) ==
  vulnerability_map[((board_number - 1) % 15) + 1]

calculate_vulnerability(board_number) ==
  vulnerability_map[((board_number - 1) % 16) + 1]

CallCalculateVulnerability ==
  /\ fn = "none"
  /\ \E n \in 1..MaxBoard :
       /\ fn' = "calculate_vulnerability"
       /\ args' = [board_number |-> n]
       /\ ret' = Return(calculate_vulnerability(n))
       /\ UNCHANGED <<caller, tournament, rounds, board_results, match_results, response>>

(***************************************************************************)
(* movements.py: round_robin, and api_routes.py: handle_round_robin        *)
(***************************************************************************)
\* the absent optional argument (team ids are never negative)
None == 0 - 1

round_pairings_of(teams) ==
  [i \in 1..(Len(teams) \div 2) |-> <<teams[i], teams[Len(teams) + 1 - i]>>]

rotate_all(teams) ==
  <<teams[Len(teams)]>> \o SubSeq(teams, 1, Len(teams) - 1)

\* teams = [teams[0]] + [teams[-1]] + teams[1:-1]
rotate(teams) ==
  <<teams[1]>> \o <<teams[Len(teams)]>> \o SubSeq(teams, 2, Len(teams) - 1)

\* the body of the loop over range(num_rounds), k rounds being left
RECURSIVE schedule_from(_, _)
schedule_from(teams, k) ==
  IF k = 0 THEN <<>>
  ELSE <<round_pairings_of(teams)>> \o schedule_from(rotate(teams), k - 1)

round_robin_teams_bye_is_last(num_teams, bye_team) ==
  LET teams == [i \in 1..num_teams |-> i]
  IN  IF num_teams % 2 = 1
      THEN Append(teams, IF bye_team = None THEN num_teams ELSE bye_team)
      ELSE teams

\* the roster of the schedule: 1..num_teams, and the bye team when that is odd
round_robin_teams(num_teams, bye_team) ==
  LET teams == [i \in 1..num_teams |-> i]
  IN  IF num_teams % 2 = 1
      THEN Append(teams, IF bye_team = None THEN num_teams + 1 ELSE bye_team)
      ELSE teams

round_robin(num_teams, bye_team) ==
  IF num_teams < 2 THEN Raise("ValueError")
  ELSE LET teams == round_robin_teams(num_teams, bye_team)
       IN  Return(schedule_from(teams, Len(teams) - 1))

\* the pairs of a round that do not involve the bye team
without_bye(round_pairings, bye_team) ==
  SelectSeq(round_pairings, LAMBDA p : p[1] # bye_team /\ p[2] # bye_team)

handle_round_robin_wrapping(num_entries, new_round) ==
  LET all_rounds == round_robin(num_entries, None)
  IN  IF all_rounds.kind = "raise" THEN all_rounds
      ELSE LET round_pairings ==
                 all_rounds.value[((new_round - 1) % Len(all_rounds.value)) + 1]
           IN  IF num_entries % 2 = 1
               THEN Return(without_bye(round_pairings, num_entries + 1))
               ELSE Return(round_pairings)

\* all_rounds[new_round - 1] counts from the end when new_round - 1 is negative
\* and raises IndexError below -len(all_rounds)
handle_round_robin(num_entries, new_round) ==
  LET all_rounds == round_robin(num_entries, None)
  IN  IF all_rounds.kind = "raise" THEN all_rounds
      ELSE IF new_round - 1 >= Len(all_rounds.value)
           THEN Raise("ValueError: No more rounds in round robin")
      ELSE IF new_round - 1 < 0 - Len(all_rounds.value) THEN Raise("IndexError")
      ELSE LET index == IF new_round - 1 >= 0 THEN new_round
                        ELSE Len(all_rounds.value) + new_round
               round_pairings == all_rounds.value[index]
           IN  IF num_entries % 2 = 1
               THEN Return(without_bye(round_pairings, num_entries + 1))
               ELSE Return(round_pairings)

CallRoundRobin ==
  /\ fn = "none"
  /\ \E n \in 0..MaxTeams, bye \in {None, 0, 1, MaxTeams + 2} :
       /\ fn' = "round_robin"
       /\ args' = [num_teams |-> n, bye_team |-> bye]
       /\ ret' = round_robin(n, bye)
       /\ UNCHANGED <<caller, tournament, rounds, board_results, match_results, response>>

CallHandleRoundRobin ==
  /\ fn = "none"
  /\ \E n \in 0..MaxTeams, r \in (0 - 1)..(MaxTeams + 2) :
       /\ fn' = "handle_round_robin"
       /\ args' = [num_entries |-> n, new_round |-> r]
       /\ ret' = handle_round_robin(n, r)
       /\ UNCHANGED <<caller, tournament, rounds, board_results, match_results, response>>

(***************************************************************************)
(* movements.py: table assignments, Swiss pairing and knockout brackets.   *)
(* A list is a sequence, a dict a function on its keys, a table assignment *)
(* the tuple (table_number, room, team_ns, team_ew).                       *)
(***************************************************************************)
\* dict.get(key, default)
get(d, key, default) == IF key \in DOMAIN d THEN d[key] ELSE default

\* x in s, for a list s
InList(x, s) == \E k \in 1..Len(s) : s[k] = x

\* the open and the closed room of every match, tables numbered from 1
tables_of(matches) ==
  [k \in 1..(2 * Len(matches)) |->
     LET m == matches[(k + 1) \div 2]
     IN  IF k % 2 = 1 THEN <<(k + 1) \div 2, "open", m[1], m[2]>>
         ELSE <<k \div 2, "closed", m[2], m[1]>>]

\* the lists of assign_table_pairs: the caller's and its copy teams
assign_table_pairs_lists(team_ids) == [team_ids |-> team_ids, teams |-> team_ids]

\* assign_table_pairs with table_number advanced before the bye team is skipped
assign_table_pairs_numbered_before_skip(team_ids, bye_team) ==
  IF Len(team_ids) < 2 THEN Raise("ValueError")
  ELSE IF Len(team_ids) % 2 # 0 THEN Raise("ValueError")
  ELSE LET teams == assign_table_pairs_lists(team_ids).teams
           pairs == [k \in 1..(Len(teams) \div 2) |-> <<teams[2 * k - 1], teams[2 * k]>>]
       IN  Return(SelectSeq(tables_of(pairs),
                            LAMBDA row : row[3] # bye_team /\ row[4] # bye_team))

assign_table_pairs(team_ids, bye_team) ==
  IF Len(team_ids) < 2 THEN Raise("ValueError")
  ELSE IF Len(team_ids) % 2 # 0 THEN Raise("ValueError")
  ELSE LET teams == assign_table_pairs_lists(team_ids).teams
           pairs == [k \in 1..(Len(teams) \div 2) |-> <<teams[2 * k - 1], teams[2 * k]>>]
       IN  Return(tables_of(without_bye(pairs, bye_team)))

round_robin_with_tables(num_teams, bye_team) ==
  LET schedule == round_robin(num_teams, bye_team)
      bye == IF num_teams % 2 = 1 /\ bye_team = None THEN num_teams + 1 ELSE bye_team
  IN  IF schedule.kind = "raise" THEN schedule
      ELSE Return([r \in 1..Len(schedule.value) |->
                     tables_of(without_bye(schedule.value[r], bye))])

\* huge_penalty = 1e6
huge_penalty == 1000000

\* vps = [standings.get(team_id, 0) for team_id in team_ids]
vps(team_ids, standings) == [k \in 1..Len(team_ids) |-> get(standings, team_ids[k], 0)]

\* team_to_idx[team_id]: the last index that holds team_id
team_to_idx(team_ids, team_id) ==
  CHOOSE k \in 1..Len(team_ids) :
    /\ team_ids[k] = team_id
    /\ \A l \in 1..Len(team_ids) : team_ids[l] = team_id => l <= k

\* the index pairs (i, j), i <= j, of the competitors of team_ids that are in
\* the list of previous opponents of one another
history(team_ids, previous_opponents) ==
  LET met == {q \in (DOMAIN previous_opponents) \X {team_ids[k] : k \in 1..Len(team_ids)} :
                /\ InList(q[1], team_ids)
                /\ InList(q[2], previous_opponents[q[1]])}
  IN  {LET i == team_to_idx(team_ids, q[1])
           j == team_to_idx(team_ids, q[2])
       IN  IF i < j THEN <<i, j>> ELSE <<j, i>> : q \in met}

\* idx_to_pair: the pairs (i, j) with i < j
idx_to_pair(n) == {p \in (1..n) \X (1..n) : p[1] < p[2]}

costs_not_squared(team_ids, standings, previous_opponents) ==
  LET v == vps(team_ids, standings)
      h == history(team_ids, previous_opponents)
  IN  [p \in idx_to_pair(Len(team_ids)) |->
         IF p \in h THEN huge_penalty ELSE v[p[1]] - v[p[2]]]

\* costs[(i, j)]: the penalty for a rematch, else the squared difference of the VPs
costs(team_ids, standings, previous_opponents) ==
  LET v == vps(team_ids, standings)
      h == history(team_ids, previous_opponents)
  IN  [p \in idx_to_pair(Len(team_ids)) |->
         IF p \in h THEN huge_penalty ELSE (v[p[1]] - v[p[2]]) * (v[p[1]] - v[p[2]])]

\* the 0/1 vectors x with A x = 1, as the sets of the pairs with x = 1: every
\* index is in exactly one pair
RECURSIVE feasible(_)
feasible(S) ==
  IF S = {} THEN {{}}
  ELSE LET i == CHOOSE x \in S : \A y \in S : x <= y
       IN  UNION {{m \cup {<<i, j>>} : m \in feasible(S \ {i, j})} : j \in S \ {i}}

\* c @ x
RECURSIVE objective(_, _)
objective(c, x) ==
  IF x = {} THEN 0
  ELSE LET p == CHOOSE q \in x : TRUE IN c[p] + objective(c, x \ {p})

\* what milp can hand back: a feasible x of least objective, or no success
milp(c, n) ==
  LET xs == feasible(1..n)
      values == {objective(c, x) : x \in xs}
      least == CHOOSE v \in values : \A w \in values : v <= w
  IN  {[success |-> TRUE, x |-> x] : x \in {y \in xs : objective(c, y) = least}}
      \cup {[success |-> FALSE, x |-> {}]}

\* a < b for tuples of the same length, as Python compares them
RECURSIVE tuple_less(_, _)
tuple_less(a, b) ==
  IF a = <<>> THEN FALSE
  ELSE IF Head(a) # Head(b) THEN Head(a) < Head(b)
  ELSE tuple_less(Tail(a), Tail(b))

\* list.sort(reverse=True) of tuples that all differ
RECURSIVE sort_reverse(_)
sort_reverse(S) ==
  IF S = {} THEN <<>>
  ELSE LET top == CHOOSE a \in S : \A b \in S : b = a \/ tuple_less(b, a)
       IN  <<top>> \o sort_reverse(S \ {top})

\* sorted(team_ids, key=lambda x: standings.get(x, 0), reverse=True): a new
\* list, by descending key, equal keys in the order of team_ids
RECURSIVE sorted_positions(_, _)
sorted_positions(P, key) ==
  IF P = {} THEN <<>>
  ELSE LET first == CHOOSE p \in P :
                      \A q \in P : key[p] > key[q] \/ (key[p] = key[q] /\ p <= q)
       IN  <<first>> \o sorted_positions(P \ {first}, key)

\* the lists of _greedy_swiss_pairing: the caller's and the new sorted_teams
greedy_swiss_pairing_lists(team_ids, standings) ==
  LET order == sorted_positions(1..Len(team_ids), vps(team_ids, standings))
  IN  [team_ids |-> team_ids,
       sorted_teams |-> [k \in 1..Len(team_ids) |-> team_ids[order[k]]]]

RECURSIVE greedy_from_team1_only(_, _, _, _, _, _)
greedy_from_team1_only(k, matches, paired, sorted_teams, previous_opponents, bye_team) ==
  IF k > Len(sorted_teams) THEN matches
  ELSE LET team1 == sorted_teams[k]
           team1_opponents == get(previous_opponents, team1, <<>>)
           free == SelectSeq(sorted_teams, LAMBDA t : t # team1 /\ t \notin paired)
           fresh == SelectSeq(free, LAMBDA t : ~InList(t, team1_opponents))
       IN  IF team1 \in paired \/ free = <<>>
           THEN greedy_from_team1_only(k + 1, matches, paired, sorted_teams,
                                       previous_opponents, bye_team)
           ELSE LET team2 == IF fresh # <<>> THEN fresh[1] ELSE free[1]
                    skip == bye_team # None /\ (team1 = bye_team \/ team2 = bye_team)
                IN  greedy_from_team1_only(k + 1,
                                IF skip THEN matches ELSE Append(matches, <<team1, team2>>),
                                paired \cup {team1},
                                sorted_teams, previous_opponents, bye_team)

\* the loop over sorted_teams from its k-th element on: matches are the pairs
\* that got a table so far, paired is the set of the teams already taken
RECURSIVE greedy_from(_, _, _, _, _, _)
greedy_from(k, matches, paired, sorted_teams, previous_opponents, bye_team) ==
  IF k > Len(sorted_teams) THEN matches
  ELSE LET team1 == sorted_teams[k]
           team1_opponents == get(previous_opponents, team1, <<>>)
           free == SelectSeq(sorted_teams, LAMBDA t : t # team1 /\ t \notin paired)
           fresh == SelectSeq(free, LAMBDA t : ~InList(t, team1_opponents))
       IN  IF team1 \in paired \/ free = <<>>
           THEN greedy_from(k + 1, matches, paired, sorted_teams, previous_opponents, bye_team)
           ELSE LET team2 == IF fresh # <<>> THEN fresh[1] ELSE free[1]
                    skip == bye_team # None /\ (team1 = bye_team \/ team2 = bye_team)
                IN  greedy_from(k + 1,
                                IF skip THEN matches ELSE Append(matches, <<team1, team2>>),
                                paired \cup {team1, team2},
                                sorted_teams, previous_opponents, bye_team)

greedy_swiss_pairing(team_ids, standings, previous_opponents, bye_team) ==
  LET sorted_teams == greedy_swiss_pairing_lists(team_ids, standings).sorted_teams
  IN  Return(tables_of(greedy_from(1, <<>>, {}, sorted_teams, previous_opponents, bye_team)))

\* swiss_pairing, res being what milp returned; the code never reads its
\* round_number argument, which the model leaves out
swiss_pairing(team_ids, standings, previous_opponents, bye_team, res) ==
  IF Len(team_ids) < 2 THEN Raise("ValueError")
  ELSE IF Len(team_ids) % 2 # 0 THEN Raise("ValueError")
  ELSE IF ~res.success
       THEN greedy_swiss_pairing(team_ids, standings, previous_opponents, bye_team)
  ELSE LET matches == {p \in res.x :
                         ~(bye_team # None /\ (team_ids[p[1]] = bye_team
                                               \/ team_ids[p[2]] = bye_team))}
           matches_with_vp ==
             sort_reverse({<<get(standings, team_ids[p[1]], 0)
                               + get(standings, team_ids[p[2]], 0), p[1], p[2]>> :
                             p \in matches})
       IN  Return(tables_of([k \in 1..Len(matches_with_vp) |->
                               <<team_ids[matches_with_vp[k][2]],
                                 team_ids[matches_with_vp[k][3]]>>]))

\* what milp can return to swiss_pairing for these arguments; the solver is not
\* called when the roster is refused
milp_of(team_ids, standings, previous_opponents) ==
  IF Len(team_ids) < 2 \/ Len(team_ids) % 2 # 0 THEN {[success |-> FALSE, x |-> {}]}
  ELSE milp(costs(team_ids, standings, previous_opponents), Len(team_ids))

\* a & b on naturals
RECURSIVE bit_and(_, _)
bit_and(a, b) ==
  IF a = 0 \/ b = 0 THEN 0
  ELSE (a % 2) * (b % 2) + 2 * bit_and(a \div 2, b \div 2)

knockout_bracket_lists_in_place(team_ids, seeded, order) ==
  LET teams == IF seeded THEN team_ids
               ELSE [k \in 1..Len(team_ids) |-> team_ids[order[k]]]
  IN  [team_ids |-> teams, teams |-> teams]

\* the lists of knockout_bracket: the caller's and its copy teams, which
\* random.shuffle leaves in the order teams[order[1]], teams[order[2]], ...
knockout_bracket_lists(team_ids, seeded, order) ==
  [team_ids |-> team_ids,
   teams |-> IF seeded THEN team_ids
             ELSE [k \in 1..Len(team_ids) |-> team_ids[order[k]]]]

\* the body of the while loop: the tables of a round, then the later rounds
\* of the teams named first
RECURSIVE knockout_rounds(_)
knockout_rounds(current_round) ==
  IF Len(current_round) <= 1 THEN <<>>
  ELSE LET half == Len(current_round) \div 2
           round_pairings == [k \in 1..half |->
                                <<k, current_round[2 * k - 1], current_round[2 * k]>>]
           next_round == [k \in 1..half |-> current_round[2 * k - 1]]
       IN  <<round_pairings>> \o knockout_rounds(next_round)

knockout_bracket_even_sizes(team_ids, seeded, order) ==
  IF Len(team_ids) < 2 THEN Raise("ValueError")
  ELSE IF Len(team_ids) % 2 # 0 THEN Raise("ValueError")
  ELSE Return(knockout_rounds(knockout_bracket_lists(team_ids, seeded, order).teams))

knockout_bracket(team_ids, seeded, order) ==
  IF Len(team_ids) < 2 THEN Raise("ValueError")
  ELSE IF bit_and(Len(team_ids), Len(team_ids) - 1) # 0 THEN Raise("ValueError")
  ELSE Return(knockout_rounds(knockout_bracket_lists(team_ids, seeded, order).teams))

\* the orders random.shuffle can leave n items in
shuffles(n) == Permutations(1..n)

\* the orders that a call can meet: the shuffle is reached for an unseeded
\* bracket of an accepted roster only
shuffles_of(team_ids, seeded) ==
  IF seeded \/ Len(team_ids) < 2 \/ bit_and(Len(team_ids), Len(team_ids) - 1) # 0
  THEN {[k \in 1..Len(team_ids) |-> k]}
  ELSE shuffles(Len(team_ids))

(***************************************************************************)
(* api_routes.py: the tournament database and its handlers.  rounds is the *)
(* rounds table in the order of its row ids, board_results the set of the  *)
(* rows of board_results, tournament the row of the tournaments table.     *)
(***************************************************************************)
NoTournament ==
  [form |-> "none", movement_type |-> "none", num_entries |-> 0, boards_per_round |-> 0]

HttpOk == [status |-> 200, detail |-> "success"]

HttpError(code, detail) == [status |-> code, detail |-> detail]

\* f"{start_board}-{end_board}"
boards_text(round_num, boards_per_round) ==
  IntToStr((round_num - 1) * boards_per_round + 1) \o <<"-">>
    \o IntToStr(round_num * boards_per_round)

round_row(round_num, table, entry1, entry2, boards_per_round) ==
  [round_number |-> round_num, table_number |-> table, entry1_id |-> entry1,
   entry2_id |-> entry2, boards |-> boards_text(round_num, boards_per_round),
   status |-> "pending"]

\* one row per matchup, tables numbered from 1 in the order of the matchups
single_rows(round_num, matchups, bpr) ==
  [k \in 1..Len(matchups) |->
     round_row(round_num, k, matchups[k][1], matchups[k][2], bpr)]

\* two rows per matchup, the second with the entries swapped
duplicate_rows(round_num, matchups, bpr) ==
  [k \in 1..(2 * Len(matchups)) |->
     LET m == matchups[(k + 1) \div 2]
     IN  IF k % 2 = 1 THEN round_row(round_num, k, m[1], m[2], bpr)
         ELSE round_row(round_num, k, m[2], m[1], bpr)]

RECURSIVE Flatten(_)
Flatten(seqs) == IF seqs = <<>> THEN <<>> ELSE Head(seqs) \o Flatten(Tail(seqs))

\* the rows that setup_tournament inserts for a pairs tournament
setup_pairs_rows(movement_type, num_entries, bpr) ==
  LET num_tables == (num_entries + 1) \div 2
      num_rounds == IF movement_type = "mitchell" THEN num_entries \div 2
                    ELSE IF movement_type = "howell" THEN num_entries - 1
                    ELSE 1
      tables == SelectSeq([t \in 1..num_tables |-> t], LAMBDA t : t * 2 <= num_entries)
  IN  Flatten([r \in 1..num_rounds |->
                 [k \in 1..Len(tables) |->
                    round_row(r, tables[k], tables[k] * 2 - 1, tables[k] * 2, bpr)]])

\* the rows that setup_tournament inserts for a teams round-robin
setup_round_robin_rows(num_entries, bpr) ==
  LET all_rounds == round_robin(num_entries, None).value
  IN  Flatten([r \in 1..Len(all_rounds) |->
                 duplicate_rows(r,
                                IF num_entries % 2 = 1
                                THEN without_bye(all_rounds[r], num_entries + 1)
                                ELSE all_rounds[r],
                                bpr)])

setup_rows(form, movement_type, num_entries, bpr) ==
  IF form = "pairs" THEN setup_pairs_rows(movement_type, num_entries, bpr)
  ELSE IF form = "teams" /\ movement_type = "round-robin"
       THEN setup_round_robin_rows(num_entries, bpr)
       ELSE <<>>

Forms == {"pairs", "teams"}

MovementTypes == {"round-robin", "mitchell"}

\* POST /api/tournament/setup, for the first tournament of the database
SetupTournament ==
  /\ tournament = NoTournament
  /\ \E form \in Forms, movement_type \in MovementTypes,
        num_entries \in 2..MaxEntries, bpr \in 1..MaxBoardsPerRound :
       /\ tournament' = [form |-> form, movement_type |-> movement_type,
                         num_entries |-> num_entries, boards_per_round |-> bpr]
       /\ rounds' = setup_rows(form, movement_type, num_entries, bpr)
       /\ response' = HttpOk
       /\ UNCHANGED <<fn, args, ret, caller, board_results, match_results>>

\* team_ids[i] for i in range(0, len(team_ids), 2) if i + offset < len(team_ids)
handle_rotation(num_entries, new_round) ==
  IF num_entries - 1 = 0 THEN Raise("ZeroDivisionError")
  ELSE LET offset == (new_round - 1) % (num_entries - 1)
           starts == SelectSeq([k \in 1..((num_entries + 1) \div 2) |-> 2 * (k - 1)],
                               LAMBDA i : i + offset < num_entries)
       IN  Return([k \in 1..Len(starts) |->
                     <<starts[k] + 1, ((starts[k] + offset) % num_entries) + 1>>])

\* previous_opponents[t] after the loop over previous_matches
RECURSIVE opponents_in(_, _)
opponents_in(t, previous_matches) ==
  IF previous_matches = <<>> THEN <<>>
  ELSE LET entry1 == Head(previous_matches)[1]
           entry2 == Head(previous_matches)[2]
       IN  (IF entry1 = t THEN <<entry2>> ELSE <<>>)
             \o (IF entry2 = t THEN <<entry1>> ELSE <<>>)
             \o opponents_in(t, Tail(previous_matches))

\* the standings dictionary of handle_swiss, from the rows (table_id, total_vp)
handle_swiss_standings(num_entries, standings_results) ==
  IF standings_results # <<>>
  THEN [t \in {standings_results[k][1] : k \in 1..Len(standings_results)} |->
          LET k == CHOOSE l \in 1..Len(standings_results) :
                     /\ standings_results[l][1] = t
                     /\ \A m \in 1..Len(standings_results) :
                          standings_results[m][1] = t => m <= l
          IN  standings_results[k][2]]
  ELSE [t \in 1..num_entries |-> 0]

\* handle_swiss, the rows of the two queries and what milp returns being given
handle_swiss(num_entries, standings_results, previous_matches, res) ==
  LET team_ids == [k \in 1..num_entries |-> k]
      standings == handle_swiss_standings(num_entries, standings_results)
      previous_opponents == [t \in 1..num_entries |-> opponents_in(t, previous_matches)]
      pairings == swiss_pairing(team_ids, standings, previous_opponents, None, res)
  IN  IF pairings.kind = "raise" THEN pairings
      ELSE Return([k \in 1..(Len(pairings.value) \div 2) |->
                     <<pairings.value[2 * k - 1][3], pairings.value[2 * k - 1][4]>>])

\* the matchups of the new round, by movement type
round_matchups(movement_type, num_entries, new_round) ==
  IF movement_type = "round-robin" THEN handle_round_robin(num_entries, new_round)
  ELSE handle_rotation(num_entries, new_round)

\* the rows inserted for the matchups of the new round
advance_rows(t, new_round, matchups) ==
  IF t.movement_type = "round-robin" /\ t.form = "teams"
  THEN duplicate_rows(new_round, matchups, t.boards_per_round)
  ELSE single_rows(new_round, matchups, t.boards_per_round)

CountRounds(round_number) ==
  Cardinality({i \in 1..Len(rounds) : rounds[i].round_number = round_number})

CountResults(round_number) ==
  Cardinality({b \in board_results : b.round_number = round_number})

\* POST /api/tournament/advance_round with currentRound = current_round
AdvanceRoundOf(current_round) ==
  /\ UNCHANGED <<fn, args, ret, caller, tournament, board_results, match_results>>
  /\ IF current_round = None
     THEN response' = HttpError(422, "Missing tournamentId or currentRound")
          /\ rounds' = rounds
     ELSE IF tournament = NoTournament
     THEN response' = HttpError(404, "Tournament not found")
          /\ rounds' = rounds
     ELSE IF CountResults(current_round)
               < CountRounds(current_round) * tournament.boards_per_round
     THEN response' = HttpError(400, "Cannot advance")
          /\ rounds' = rounds
     ELSE LET new_round == current_round + 1
              matchups == round_matchups(tournament.movement_type,
                                         tournament.num_entries, new_round)
          IN  IF matchups.kind = "raise"
              THEN response' = HttpError(500, matchups.exc)
                   /\ rounds' = rounds
              ELSE /\ rounds' = rounds \o advance_rows(tournament, new_round, matchups.value)
                   /\ response' = HttpOk
                   /\ Len(rounds') <= MaxNewRows
                         + Len(setup_rows(tournament.form, tournament.movement_type,
                                          tournament.num_entries,
                                          tournament.boards_per_round))

AdvanceRound == \E current_round \in {None} \cup (0..MaxRoundNumber) : AdvanceRoundOf(current_round)

\* the outcome of verify_token for a token that is unknown or has expired: the
\* request is refused with 401. No token is issued for table 0, which
\* get_token and verify_password refuse as a missing field
NoToken == 0

\* the tableId of the requests: the tables, and the number that swap_tables
\* parks the rows of table1 under, for which get_token issues a token as for
\* any other number
ParkedTable == 0 - 1

TableIds == (1..MaxEntries) \cup {ParkedTable}

\* what Depends(verify_token) hands to a handler: NoToken when the token of
\* the request is refused with 401, else the table the token was issued for,
\* which is the table of the request or another one
AuthOutcomes(table_id) == {NoToken, table_id, (table_id % MaxEntries) + 1}

\* the contract, declarer and result of a submission
ScoreInputs ==
  {[contract |-> <<"3", "N", "T">>, declarer |-> "N", result |-> 3],
   [contract |-> <<"4", "S", "X">>, declarer |-> "E", result |-> 0 - 1],
   [contract |-> <<"H", "4">>, declarer |-> "S", result |-> 4]}

\* the vulnerability of the declaring side on a board
declarer_vulnerable(board_number, declarer) ==
  LET vulnerability == calculate_vulnerability(board_number)
  IN  \/ vulnerability = "ALL"
      \/ vulnerability = "NS" /\ declarer \in {"N", "S"}
      \/ vulnerability = "EW" /\ declarer \in {"E", "W"}

\* calculate_bridge_score(f"{contract} {vulnerability_str} {result}"), negated for E/W
submitted_score(board_number, input) ==
  LET vulnerability_str == IF declarer_vulnerable(board_number, input.declarer)
                           THEN <<"v">> ELSE <<"m">>
      score == calculate_bridge_score(
                 Join(<<input.contract, vulnerability_str, IntToStr(input.result)>>))
  IN  IF score.kind = "raise" THEN score
      ELSE IF input.declarer \in {"E", "W"} THEN Return(0 - score.value)
      ELSE score

SameBoard(b, table_id, round_number, board_number) ==
  /\ b.table_id = table_id
  /\ b.round_number = round_number
  /\ b.board_number = board_number

\* the boards that the tables play in a round; a request that names no round
\* names board 1
BoardsOfRound(round_number) ==
  IF round_number = 0 THEN {1}
  ELSE ((round_number - 1) * tournament.boards_per_round + 1)
         ..(round_number * tournament.boards_per_round)

\* POST /api/score/submit, auth being what verify_token hands to the handler
SubmitScoreOf(table_id, round_number, board_number, input, auth) ==
    /\ tournament # NoTournament
    /\ UNCHANGED <<fn, args, ret, caller, tournament, rounds, match_results>>
    /\ IF auth = NoToken
       THEN response' = HttpError(401, "Invalid authentication token")
            /\ board_results' = board_results
       ELSE IF table_id # auth
       THEN response' = HttpError(403, "Not authorized to submit scores for this table")
            /\ board_results' = board_results
       ELSE IF round_number = 0
       THEN response' = HttpError(422, "Missing required fields")
            /\ board_results' = board_results
       ELSE LET score == submitted_score(board_number, input)
                row == [table_id |-> table_id, round_number |-> round_number,
                        board_number |-> board_number, contract |-> input.contract,
                        declarer |-> input.declarer,
                        vulnerable |-> declarer_vulnerable(board_number, input.declarer),
                        result |-> input.result, score |-> score.value]
            IN  IF score.kind = "raise"
                THEN response' = HttpError(400, "Error calculating score")
                     /\ board_results' = board_results
                ELSE /\ board_results' =
                          {b \in board_results :
                             ~SameBoard(b, table_id, round_number, board_number)} \cup {row}
                     /\ response' = HttpOk
                     /\ Cardinality(board_results') <= MaxResults

SubmitScore ==
  \E table_id \in TableIds, round_number \in 0..MaxSubmitRound, input \in ScoreInputs :
    \E board_number \in BoardsOfRound(round_number), auth \in AuthOutcomes(table_id) :
      SubmitScoreOf(table_id, round_number, board_number, input, auth)

(***************************************************************************)
(* api_routes.py: submit_round, and database.py: calculate_match_result.   *)
(* match_results is the set of the rows of the match_results table, which  *)
(* is UNIQUE in (tournament_id, table_id, round_number).                   *)
(***************************************************************************)
\* UPDATE rounds SET status = ? WHERE table_number = ? AND round_number = ?
with_status(rows, table, round_number, status) ==
  [i \in 1..Len(rows) |->
     IF rows[i].table_number = table /\ rows[i].round_number = round_number
     THEN [rows[i] EXCEPT !.status = status]
     ELSE rows[i]]

\* SELECT ... FROM rounds WHERE table_number = ? AND round_number = ?, in the
\* order of the row ids; fetchone() is the head, None when there is no row
rounds_of_table(rows, table, round_number) ==
  SelectSeq(rows, LAMBDA r : r.table_number = table /\ r.round_number = round_number)

\* range(start, end + 1) of the text "start-end", the one board of other text
board_numbers(boards_str) ==
  IF InList("-", boards_str)
  THEN LET k == CHOOSE i \in 1..Len(boards_str) : boards_str[i] = "-"
       IN  int(SubSeq(boards_str, 1, k - 1))
             ..int(SubSeq(boards_str, k + 1, Len(boards_str)))
  ELSE {int(boards_str)}

\* table1_scores / table2_scores: the score stored for each board that has one
table_scores(table, round_number, boards) ==
  LET stored == {board \in boards :
                   \E b \in board_results : SameBoard(b, table, round_number, board)}
  IN  [board \in stored |->
         (CHOOSE b \in board_results : SameBoard(b, table, round_number, board)).score]

\* the sum of the IMPs of the boards that both tables have a score for
RECURSIVE total_imps_of(_, _, _)
total_imps_of(boards, table1_scores, table2_scores) ==
  IF boards = {} THEN 0
  ELSE LET board == CHOOSE x \in boards : TRUE
       IN  calculate_imp(table1_scores[board], table2_scores[board])
             + total_imps_of(boards \ {board}, table1_scores, table2_scores)

\* sum(scores.values())
RECURSIVE sum_values(_)
sum_values(scores) ==
  IF DOMAIN scores = {} THEN 0
  ELSE LET board == CHOOSE x \in DOMAIN scores : TRUE
       IN  scores[board] + sum_values([x \in DOMAIN scores \ {board} |-> scores[x]])

match_row(table, round_number, total_score, opponent_score, imps, vp) ==
  [table_id |-> table, round_number |-> round_number, total_score |-> total_score,
   opponent_score |-> opponent_score, imps |-> imps, vp |-> vp]

\* calculate_match_result on the rounds rows: the rounds and match_results
\* tables that it leaves
calculate_match_result(rows, table1, table2, round_number, boards_per_round) ==
  LET boards_data == rounds_of_table(rows, table1, round_number)
  IN  IF boards_data = <<>> THEN [rounds |-> rows, match_results |-> match_results]
      ELSE LET boards == board_numbers(Head(boards_data).boards)
               table1_scores == table_scores(table1, round_number, boards)
               table2_scores == table_scores(table2, round_number, boards)
               total_imps == total_imps_of(DOMAIN table1_scores \cap DOMAIN table2_scores,
                                           table1_scores, table2_scores)
               vp == calculate_vp(total_imps, 0, boards_per_round).value
               table1_total == sum_values(table1_scores)
               table2_total == sum_values(table2_scores)
           IN  [rounds |->
                  with_status(with_status(rows, table1, round_number,
                                          "complete_with_result"),
                              table2, round_number, "complete_with_result"),
                match_results |->
                  {m \in match_results :
                     ~(m.table_id \in {table1, table2} /\ m.round_number = round_number)}
                    \cup {match_row(table1, round_number, table1_total, table2_total,
                                    total_imps, vp[1]),
                          match_row(table2, round_number, table2_total, table1_total,
                                    0 - total_imps, vp[2])}]

\* POST /api/table/submit_round
SubmitRound ==
  \E table_id \in 1..MaxEntries, round_number \in 1..MaxSubmitRound :
    /\ tournament # NoTournament
    /\ UNCHANGED <<fn, args, ret, caller, tournament, board_results>>
    /\ LET completed == with_status(rounds, table_id, round_number, "complete")
           opponent_table == IF table_id % 2 = 1 THEN table_id + 1 ELSE table_id - 1
           opponent_status == rounds_of_table(completed, opponent_table, round_number)
       IN  IF opponent_status # <<>> /\ Head(opponent_status).status = "complete"
           THEN LET result == calculate_match_result(completed, table_id, opponent_table,
                                                     round_number,
                                                     tournament.boards_per_round)
                IN  /\ rounds' = result.rounds
                    /\ match_results' = result.match_results
                    /\ response' = HttpOk
           ELSE /\ rounds' = completed
                /\ match_results' = match_results
                /\ response' = HttpOk

(***************************************************************************)
(* api_routes.py: update_score and swap_tables                             *)
(***************************************************************************)
\* the contract, declarer, result and score of an update; the second has no
\* contract
UpdateInputs ==
  {[contract |-> <<"1", "C">>, declarer |-> "W", result |-> 0, score |-> 45],
   [contract |-> <<>>, declarer |-> "N", result |-> 1, score |-> 90]}

\* POST /api/score/update of the row that scoreId names (row), auth being what
\* verify_token hands to the handler; the row has kept its id since its INSERT
UpdateScoreOf(row, input, auth) ==
  /\ tournament # NoTournament
  /\ UNCHANGED <<fn, args, ret, caller, tournament, rounds, match_results>>
  /\ IF auth = NoToken
     THEN response' = HttpError(401, "Invalid authentication token")
          /\ board_results' = board_results
     ELSE IF input.contract = <<>>
     THEN response' = HttpError(422, "Missing required fields")
          /\ board_results' = board_results
     ELSE /\ board_results' =
               (board_results \ {row})
                 \cup {[row EXCEPT !.contract = input.contract,
                                   !.declarer = input.declarer,
                                   !.result = input.result, !.score = input.score]}
          /\ response' = HttpOk

UpdateScore ==
  \E row \in board_results, input \in UpdateInputs, auth \in {NoToken} \cup TableIds :
    UpdateScoreOf(row, input, auth)

\* UPDATE board_results SET table_id = ? WHERE round_number = ? AND table_id = ?
with_table(results, round_number, from, to) ==
  {IF b.round_number = round_number /\ b.table_id = from
   THEN [b EXCEPT !.table_id = to] ELSE b : b \in results}

\* UPDATE rounds SET entry1_id = ?, entry2_id = ?, boards = ? WHERE
\* round_number = ? AND table_number = ?
with_matchup(rows, round_number, table, matchup) ==
  [i \in 1..Len(rows) |->
     IF rows[i].table_number = table /\ rows[i].round_number = round_number
     THEN [rows[i] EXCEPT !.entry1_id = matchup.entry1_id,
                          !.entry2_id = matchup.entry2_id, !.boards = matchup.boards]
     ELSE rows[i]]

\* POST /api/matchup/swap_tables
SwapTablesOf(round_number, table1, table2) ==
  /\ tournament # NoTournament
  /\ UNCHANGED <<fn, args, ret, caller, tournament, match_results>>
  /\ LET matchup1 == rounds_of_table(rounds, table1, round_number)
         matchup2 == rounds_of_table(rounds, table2, round_number)
     IN  IF matchup1 = <<>> \/ matchup2 = <<>>
         THEN /\ response' = HttpError(404, "One or both tables not found")
              /\ rounds' = rounds
              /\ board_results' = board_results
         ELSE /\ rounds' = with_matchup(with_matchup(rounds, round_number, table1,
                                                     Head(matchup2)),
                                        round_number, table2, Head(matchup1))
              /\ board_results' =
                   with_table(with_table(with_table(board_results, round_number,
                                                    table1, ParkedTable),
                                         round_number, table2, table1),
                              round_number, ParkedTable, table2)
              /\ response' = HttpOk

SwapTables ==
  \E round_number \in 1..MaxSubmitRound, table1 \in 1..MaxEntries, table2 \in 1..MaxEntries :
    SwapTablesOf(round_number, table1, table2)

(***************************************************************************)
(* api_routes.py: a Swiss teams tournament, whose rounds advance_round     *)
(* generates from the match results                                        *)
(***************************************************************************)
\* POST /api/tournament/setup of a Swiss teams tournament, for the first
\* tournament of the database: no rounds row is inserted
SetupSwissTournament ==
  /\ tournament = NoTournament
  /\ \E num_entries \in 2..MaxSwissEntries, bpr \in 1..MaxBoardsPerRound :
       /\ tournament' = [form |-> "teams", movement_type |-> "swiss",
                         num_entries |-> num_entries, boards_per_round |-> bpr]
       /\ rounds' = <<>>
       /\ response' = HttpOk
       /\ UNCHANGED <<fn, args, ret, caller, board_results, match_results>>

\* SUM(vp) of a group of match_results rows
RECURSIVE sum_vp(_)
sum_vp(rows) ==
  IF rows = {} THEN 0
  ELSE LET m == CHOOSE x \in rows : TRUE
       IN  m.vp + sum_vp(rows \ {m})

\* SELECT table_id, SUM(vp) as total_vp FROM match_results GROUP BY table_id
\* ORDER BY total_vp DESC
standings_query(results) ==
  LET tables == {m.table_id : m \in results}
      total_vp == [t \in tables |-> sum_vp({m \in results : m.table_id = t})]
      order == sorted_positions(tables, total_vp)
  IN  [k \in 1..Len(order) |-> <<order[k], total_vp[order[k]]>>]

\* SELECT entry1_id, entry2_id FROM rounds WHERE round_number < ?
previous_matches_query(rows, new_round) ==
  LET earlier == SelectSeq(rows, LAMBDA r : r.round_number < new_round)
  IN  [k \in 1..Len(earlier) |-> <<earlier[k].entry1_id, earlier[k].entry2_id>>]

\* the rows of the standings query with float(total_vp) in whole VP, the unit
\* in which the costs of swiss_pairing are counted
whole_vp(standings_results) ==
  [k \in 1..Len(standings_results) |->
     <<standings_results[k][1], standings_results[k][2] \div FP>>]

\* POST /api/tournament/advance_round with currentRound = current_round, for
\* the movement type swiss
AdvanceSwissRoundOf(current_round) ==
  /\ tournament.movement_type = "swiss"
  /\ UNCHANGED <<fn, args, ret, caller, tournament, board_results, match_results>>
  /\ IF CountResults(current_round)
          < CountRounds(current_round) * tournament.boards_per_round
     THEN response' = HttpError(400, "Cannot advance")
          /\ rounds' = rounds
     ELSE LET new_round == current_round + 1
              num_entries == tournament.num_entries
              standings_results == whole_vp(standings_query(match_results))
              previous_matches == previous_matches_query(rounds, new_round)
          IN  \E res \in milp_of([k \in 1..num_entries |-> k],
                                 handle_swiss_standings(num_entries, standings_results),
                                 [t \in 1..num_entries |->
                                    opponents_in(t, previous_matches)]) :
                LET matchups == handle_swiss(num_entries, standings_results,
                                             previous_matches, res)
                IN  IF matchups.kind = "raise"
                    THEN response' = HttpError(500, matchups.exc)
                         /\ rounds' = rounds
                    ELSE /\ rounds' = rounds \o advance_rows(tournament, new_round,
                                                            matchups.value)
                         /\ response' = HttpOk
                         /\ Len(rounds') <= MaxSwissRows

\* the rounds advanced from are those that tables can submit, and round 0
AdvanceSwissRound == \E current_round \in 0..MaxSubmitRound : AdvanceSwissRoundOf(current_round)

(***************************************************************************)
(* Calls of the pairing functions.  Rosters hold the teams 1..n in three   *)
(* orders, standings give every team a total from Totals, and the opponent *)
(* histories are the first rounds of the round robin of the roster.        *)
(***************************************************************************)
Rosters(n) ==
  {[k \in 1..n |-> k], [k \in 1..n |-> n + 1 - k], [k \in 1..n |-> (k % n) + 1]}

Totals == (0..MaxStanding) \cup {LeadStanding}

\* the standings of n teams that do not rise with the team number, none above top
RECURSIVE NonRising(_, _)
NonRising(n, top) ==
  IF n = 0 THEN {<<>>}
  ELSE UNION {{<<v>> \o s : s \in NonRising(n - 1, v)} : v \in {w \in Totals : w <= top}}

\* the standings of n teams: every assignment of totals for up to MaxFreeTeams
\* teams, the assignments that do not rise with the team number for more
StandingsOf(n) ==
  IF n <= MaxFreeTeams THEN [1..n -> Totals] ELSE NonRising(n, LeadStanding)

\* the matches of the first k rounds of the round robin of n teams, in order
played_matches(n, k) ==
  IF n < 2 THEN <<>>
  ELSE LET schedule == round_robin(n, None).value
       IN  Flatten([r \in 1..(IF k < Len(schedule) THEN k ELSE Len(schedule)) |-> schedule[r]])

\* the opponent history that a caller has recorded after these rounds
Histories(n) ==
  {[t \in 1..n |-> opponents_in(t, played_matches(n, k))] : k \in 0..MaxPlayedRounds}

\* the arguments of a Swiss round of n teams: roster, standings, opponent
\* history, bye team
SwissInputs(n) ==
  {[team_ids |-> team_ids, standings |-> standings,
    previous_opponents |-> previous_opponents, bye_team |-> bye_team] :
     team_ids \in {[k \in 1..n |-> k], [k \in 1..n |-> n + 1 - k]},
     standings \in StandingsOf(n),
     previous_opponents \in Histories(n),
     bye_team \in {None, n}}

SwissPairingCall(a, res) ==
  /\ fn' = "swiss_pairing"
  /\ args' = [team_ids |-> a.team_ids, standings |-> a.standings,
              previous_opponents |-> a.previous_opponents, bye_team |-> a.bye_team,
              milp |-> res]
  /\ ret' = swiss_pairing(a.team_ids, a.standings, a.previous_opponents, a.bye_team, res)
  /\ caller' = [team_ids |-> a.team_ids, standings |-> a.standings,
                previous_opponents |-> a.previous_opponents]
  /\ UNCHANGED <<tournament, rounds, board_results, match_results, response>>

CallSwissPairing ==
  /\ fn = "none"
  /\ \E n \in 0..MaxSwissTeams :
       \E a \in SwissInputs(n) :
         \E res \in milp_of(a.team_ids, a.standings, a.previous_opponents) :
           SwissPairingCall(a, res)

GreedySwissPairingCall(a) ==
  /\ fn' = "_greedy_swiss_pairing"
  /\ args' = a
  /\ ret' = greedy_swiss_pairing(a.team_ids, a.standings, a.previous_opponents, a.bye_team)
  /\ caller' = [team_ids |-> greedy_swiss_pairing_lists(a.team_ids, a.standings).team_ids,
                standings |-> a.standings,
                previous_opponents |-> a.previous_opponents]
  /\ UNCHANGED <<tournament, rounds, board_results, match_results, response>>

CallGreedySwissPairing ==
  /\ fn = "none"
  /\ \E n \in 0..MaxSwissTeams :
       \E a \in SwissInputs(n) : GreedySwissPairingCall(a)

RoundRobinWithTablesCall(n, bye) ==
  /\ fn' = "round_robin_with_tables"
  /\ args' = [num_teams |-> n, bye_team |-> bye]
  /\ ret' = round_robin_with_tables(n, bye)
  /\ UNCHANGED <<caller, tournament, rounds, board_results, match_results, response>>

CallRoundRobinWithTables ==
  /\ fn = "none"
  /\ \E n \in 0..MaxTeams, bye \in {None, 0, 1, MaxTeams + 2} : RoundRobinWithTablesCall(n, bye)

\* the rows (table_id, SUM(vp)) by descending total
standings_rows(n, standings) ==
  LET order == sorted_positions(1..n, standings)
  IN  [k \in 1..n |-> <<order[k], standings[order[k]]>>]

HandleSwissCall(n, new_round, standings_results, previous_matches, res) ==
  /\ fn' = "handle_swiss"
  /\ args' = [num_entries |-> n, new_round |-> new_round,
              standings_results |-> standings_results,
              previous_matches |-> previous_matches, milp |-> res]
  /\ ret' = handle_swiss(n, standings_results, previous_matches, res)
  /\ UNCHANGED <<caller, tournament, rounds, board_results, match_results, response>>

\* the rounds before new_round have been played, and have given standings or
\* (before the first results) none
CallHandleSwiss ==
  /\ fn = "none"
  /\ \E n \in 2..MaxSwissTeams, new_round \in 1..(MaxPlayedRounds + 1) :
       \E standings_results \in {<<>>} \cup {standings_rows(n, s) : s \in StandingsOf(n)} :
         LET previous_matches == played_matches(n, new_round - 1)
             team_ids == [k \in 1..n |-> k]
         IN  \E res \in milp_of(team_ids,
                                handle_swiss_standings(n, standings_results),
                                [t \in 1..n |-> opponents_in(t, previous_matches)]) :
               HandleSwissCall(n, new_round, standings_results, previous_matches, res)

AssignTablePairsCall(team_ids, bye_team) ==
  /\ fn' = "assign_table_pairs"
  /\ args' = [team_ids |-> team_ids, bye_team |-> bye_team]
  /\ ret' = assign_table_pairs(team_ids, bye_team)
  /\ caller' = [team_ids |-> assign_table_pairs_lists(team_ids).team_ids]
  /\ UNCHANGED <<tournament, rounds, board_results, match_results, response>>

CallAssignTablePairs ==
  /\ fn = "none"
  /\ \E n \in 0..MaxTeams :
       \E team_ids \in Rosters(n), bye_team \in {None, 0, 1} :
         AssignTablePairsCall(team_ids, bye_team)

KnockoutBracketCall(team_ids, seeded, order) ==
  /\ fn' = "knockout_bracket"
  /\ args' = [team_ids |-> team_ids, seeded |-> seeded]
  /\ ret' = knockout_bracket(team_ids, seeded, order)
  /\ caller' = [team_ids |-> knockout_bracket_lists(team_ids, seeded, order).team_ids]
  /\ UNCHANGED <<tournament, rounds, board_results, match_results, response>>

\* seeded brackets of up to MaxTeams teams, unseeded ones of up to MaxShuffled
CallKnockoutBracket ==
  /\ fn = "none"
  /\ \E n \in 0..MaxTeams, seeded \in BOOLEAN :
       /\ seeded \/ n <= MaxShuffled
       /\ \E team_ids \in Rosters(n) :
            \E order \in shuffles_of(team_ids, seeded) :
              KnockoutBracketCall(team_ids, seeded, order)

HandleRotationCall(n, r) ==
  /\ fn' = "handle_rotation"
  /\ args' = [num_entries |-> n, new_round |-> r]
  /\ ret' = handle_rotation(n, r)
  /\ UNCHANGED <<caller, tournament, rounds, board_results, match_results, response>>

CallHandleRotation ==
  /\ fn = "none"
  /\ \E n \in 1..MaxTeams, r \in 1..(MaxTeams + 2) : HandleRotationCall(n, r)

RoundRobinCall(n, bye) ==
  /\ fn' = "round_robin"
  /\ args' = [num_teams |-> n, bye_team |-> bye]
  /\ ret' = round_robin(n, bye)
  /\ UNCHANGED <<caller, tournament, rounds, board_results, match_results, response>>

\* a second call of the function that was called, with the arguments of the
\* first call
CallAgain ==
  \/ fn = "assign_table_pairs" /\ AssignTablePairsCall(args.team_ids, args.bye_team)
  \/ fn = "round_robin" /\ RoundRobinCall(args.num_teams, args.bye_team)
  \/ fn = "_greedy_swiss_pairing" /\ GreedySwissPairingCall(args)
  \/ /\ fn = "knockout_bracket"
     /\ \E order \in shuffles_of(args.team_ids, args.seeded) :
          KnockoutBracketCall(args.team_ids, args.seeded, order)
  \/ fn = "handle_rotation" /\ HandleRotationCall(args.num_entries, args.new_round)

(***************************************************************************)
(* Properties of calculate_bridge_score                                    *)
(***************************************************************************)
Text3NT_n_3 == <<"3", "N", "T", " ", "n", " ", "3">>

Text4S_v_4 == <<"4", "S", " ", "v", " ", "4">>

Text6NT_v_6 == <<"6", "N", "T", " ", "v", " ", "6">>

Text7NT_v_7 == <<"7", "N", "T", " ", "v", " ", "7">>

Text3NTX_n_3 == <<"3", "N", "T", "X", " ", "n", " ", "3">>

Text3NTXX_n_3 == <<"3", "N", "T", "X", "X", " ", "n", " ", "3">>

Text3NTX_v_5 == <<"3", "N", "T", "X", " ", "v", " ", "5">>

Text7NTX_v_down4 == <<"7", "N", "T", "X", " ", "v", " ", "-", "4">>

ValidLevelTokens == {<<DigitChars[l + 1]>> : l \in 1..7}

ValidDenomTokens == {<<"C">>, <<"D">>, <<"H">>, <<"S">>, <<"N", "T">>}

ValidDblTokens == {<<>>, <<"X">>, <<"X", "X">>}

\* the contract token is a level 1..7, a denomination and nothing, X or XX
WellFormedContract(tok) ==
  \E lv \in ValidLevelTokens, dn \in ValidDenomTokens, db \in ValidDblTokens :
    upper(tok) = lv \o dn \o db

\* the call was made on a well-formed contract, in three parts, with a number of tricks
WellFormedCall ==
  /\ fn = "calculate_bridge_score"
  /\ args.shape \in {"plain", "padded"}
  /\ args.level \in ValidLevelTokens
  /\ args.denom \in ValidDenomTokens
  /\ args.dbl \in ValidDblTokens
  /\ \E t \in (0 - MaxUnder)..MaxTricks : args.tricks = IntToStr(t)

ArgLevel == CHOOSE l \in 1..7 : args.level = <<DigitChars[l + 1]>>

ArgTricks == CHOOSE t \in (0 - MaxUnder)..MaxTricks : args.tricks = IntToStr(t)

ArgVul == args.vul \in {<<"v">>, <<"v", "u", "l">>}

ArgFactor == IF args.dbl = <<"X">> THEN 2 ELSE IF args.dbl = <<"X", "X">> THEN 4 ELSE 1

ExpectedTrickScore ==
  LET perTrick == IF args.denom \in {<<"C">>, <<"D">>} THEN 20 ELSE 30
      first == IF args.denom = <<"N", "T">> THEN 10 ELSE 0
  IN  (perTrick * ArgLevel + first) * ArgFactor

ExpectedMadeScore ==
  LET game == IF ExpectedTrickScore >= 100 THEN (IF ArgVul THEN 500 ELSE 300) ELSE 50
      slam == IF ArgLevel = 6 THEN (IF ArgVul THEN 750 ELSE 500)
              ELSE IF ArgLevel = 7 THEN (IF ArgVul THEN 1500 ELSE 1000) ELSE 0
      insult == IF ArgFactor = 2 THEN 50 ELSE IF ArgFactor = 4 THEN 100 ELSE 0
      over == IF ArgFactor = 2 THEN (IF ArgVul THEN 200 ELSE 100)
              ELSE IF ArgFactor = 4 THEN (IF ArgVul THEN 400 ELSE 200)
              ELSE IF args.denom \in {<<"C">>, <<"D">>} THEN 20 ELSE 30
  IN  ExpectedTrickScore + game + slam + insult + (ArgTricks - ArgLevel) * over

\* C1: every made contract (level 1..7, C/D/H/S/NT, undoubled, doubled or
\* redoubled, vulnerable or not, tricks >= level) scores trick score + game
\* or partscore bonus + slam bonus + insult bonus + overtricks, and the
\* reference results 3NT n = 400, 4S v = 620, 6NT v = 1440, 7NT v = 2220,
\* 3NTX n = 550 and 3NTXX n = 800 are returned.
C1_MadeContractScore ==
  /\ (WellFormedCall /\ ArgTricks >= ArgLevel) => ret = Return(ExpectedMadeScore)
  /\ (fn = "calculate_bridge_score" /\ args.text = Text3NT_n_3) => ret = Return(400)
  /\ (fn = "calculate_bridge_score" /\ args.text = Text4S_v_4) => ret = Return(620)
  /\ (fn = "calculate_bridge_score" /\ args.text = Text6NT_v_6) => ret = Return(1440)
  /\ (fn = "calculate_bridge_score" /\ args.text = Text7NT_v_7) => ret = Return(2220)
  /\ (fn = "calculate_bridge_score" /\ args.text = Text3NTX_n_3) => ret = Return(550)
  /\ (fn = "calculate_bridge_score" /\ args.text = Text3NTXX_n_3) => ret = Return(800)

\* a doubled vulnerable game made with two overtricks has been scored
C1_Witness ==
  /\ WellFormedCall
  /\ args.text = Text3NTX_v_5
  /\ ret = Return(1150)

ExpectedPenalty(k) ==
  LET dblScale == IF ArgVul THEN <<200, 500, 800>> ELSE <<100, 300, 500>>
      doubled == IF k <= 3 THEN dblScale[k] ELSE dblScale[3] + 300 * (k - 3)
  IN  IF ArgFactor = 1 THEN k * (IF ArgVul THEN 100 ELSE 50)
      ELSE IF ArgFactor = 2 THEN doubled
      ELSE 2 * doubled

\* C2: every failed contract (tricks = -k, k >= 1) scores minus the penalty:
\* undoubled 50 or 100 per undertrick, doubled 100/300/500 (not vulnerable)
\* or 200/500/800 (vulnerable) then 300 for each undertrick beyond the
\* third, redoubled twice the doubled penalty; level and denomination do
\* not enter the result.
C2_FailedContractPenalty ==
  (WellFormedCall /\ ArgTricks <= -1) => ret = Return(0 - ExpectedPenalty(0 - ArgTricks))

\* a doubled vulnerable grand slam four down has been scored
C2_Witness ==
  /\ WellFormedCall
  /\ args.text = Text7NTX_v_down4
  /\ ret = Return(0 - 1100)

\* C3: a text whose contract token is not a level 1..7, a denomination and
\* nothing, X or XX, or that does not have exactly three parts, raises an
\* error and never returns a score.
C3_MalformedContractRaises ==
  (/\ fn = "calculate_bridge_score"
   /\ \/ Len(split(args.text)) # 3
      \/ ~WellFormedContract(split(args.text)[1]))
  => ret.kind = "raise"

(***************************************************************************)
(* Properties of calculate_imp, calculate_vp and calculate_vulnerability   *)
(***************************************************************************)
\* C4: calculate_imp is antisymmetric, calculate_imp(a, b) = -calculate_imp(b, a)
\* for all scores a and b, hence calculate_imp(a, a) = 0.
C4_ImpAntisymmetric ==
  fn = "calculate_imp" =>
    /\ ret.value = 0 - calculate_imp(args.b, args.a)
    /\ (args.a = args.b => ret.value = 0)

\* a losing side has been given a negative number of IMPs
C4_Witness ==
  /\ fn = "calculate_imp"
  /\ args.a < args.b
  /\ ret = Return(0 - 13)

\* C5: for every margin m and every number of boards n > 0 the two values
\* returned by calculate_vp(m, 0, n) sum to exactly 20.
C5_VpSumsTo20 ==
  (fn = "calculate_vp" /\ args.num_boards > 0) =>
    /\ ret.kind = "return"
    /\ ret.value[1] + ret.value[2] = 20 * FP

\* a match has been decided by a margin that leaves the loser some VP
C5_Witness ==
  /\ fn = "calculate_vp"
  /\ args.num_boards = 4
  /\ args.a > 0
  /\ ret.kind = "return"
  /\ ret.value[1] > 10 * FP
  /\ ret.value[1] < 20 * FP

\* C6: negating the margin swaps the two values: if calculate_vp(m, 0, n) is
\* (x, y) then calculate_vp(-m, 0, n) is (y, x), for every m (0 included) and
\* every n > 0; a zero margin gives both sides the same value.
C6_VpSwapSymmetry ==
  (fn = "calculate_vp" /\ args.num_boards > 0) =>
    /\ calculate_vp(0 - args.a, 0, args.num_boards)
         = Return(<<ret.value[2], ret.value[1]>>)
    /\ (args.a = 0 => ret.value[1] = ret.value[2])

\* C7: calculate_vulnerability returns a value for every positive board
\* number, has period 16, gives NONE for board 1 and depends on the board
\* number only through ((n - 1) mod 16) + 1.
C7_VulnerabilityPeriod16 ==
  fn = "calculate_vulnerability" =>
    /\ ret.kind = "return"
    /\ ret.value \in Vul
    /\ calculate_vulnerability(args.board_number + 16) = ret.value
    /\ (args.board_number = 1 => ret.value = "NONE")
    /\ \A k \in 1..MaxBoard :
         ((k - 1) % 16) + 1 = ((args.board_number - 1) % 16) + 1
           => calculate_vulnerability(k) = ret.value

\* board 17, the first board of the second cycle, has been looked up
C7_Witness ==
  /\ fn = "calculate_vulnerability"
  /\ args.board_number = 17
  /\ ret = Return("NONE")

(***************************************************************************)
(* Properties of round_robin                                               *)
(***************************************************************************)
\* the rounds of the returned schedule in which a and b are paired
RoundsWhereMeet(schedule, a, b) ==
  {r \in 1..Len(schedule) :
     \E i \in 1..Len(schedule[r]) : {schedule[r][i][1], schedule[r][i][2]} = {a, b}}

\* the number of seats that team t takes in a round
SeatsOf(round, t) ==
  Cardinality({<<i, j>> \in (1..Len(round)) \X {1, 2} : round[i][j] = t})

\* C8: for even N >= 2 round_robin(N) has exactly N - 1 rounds, each round
\* pairs every team 1..N exactly once, and every unordered pair of distinct
\* teams meets in exactly one round.
C8_RoundRobinEven ==
  (fn = "round_robin" /\ args.num_teams >= 2 /\ args.num_teams % 2 = 0) =>
    /\ ret.kind = "return"
    /\ Len(ret.value) = args.num_teams - 1
    /\ \A r \in 1..Len(ret.value) :
         /\ Len(ret.value[r]) = args.num_teams \div 2
         /\ \A t \in 1..args.num_teams : SeatsOf(ret.value[r], t) = 1
    /\ \A a \in 1..args.num_teams, b \in 1..args.num_teams :
         a < b => Cardinality(RoundsWhereMeet(ret.value, a, b)) = 1

\* a schedule for eight teams has been produced
C8_Witness ==
  /\ fn = "round_robin"
  /\ args.num_teams = 8
  /\ ret.kind = "return"
  /\ Len(ret.value) = 7
  /\ ret.value[2][1] = <<1, 7>>

\* the bye team of a call: the argument, or num_teams + 1 by default
ByeOf(a) == IF a.bye_team = None THEN a.num_teams + 1 ELSE a.bye_team

\* C9: for odd N >= 3 round_robin(N) pads the roster with the bye team (N + 1
\* by default), has exactly N rounds, and every real team 1..N is paired
\* with the bye team in exactly one of them.
C9_RoundRobinOdd ==
  (/\ fn = "round_robin"
   /\ args.num_teams >= 3
   /\ args.num_teams % 2 = 1
   /\ ByeOf(args) \notin 1..args.num_teams) =>
    /\ ret.kind = "return"
    /\ Len(ret.value) = args.num_teams
    /\ \A r \in 1..Len(ret.value) :
         /\ Len(ret.value[r]) = (args.num_teams + 1) \div 2
         /\ \A t \in (1..args.num_teams) \cup {ByeOf(args)} : SeatsOf(ret.value[r], t) = 1
    /\ \A t \in 1..args.num_teams :
         Cardinality(RoundsWhereMeet(ret.value, t, ByeOf(args))) = 1

\* a schedule for seven teams and the default bye team 8 has been produced
C9_Witness ==
  /\ fn = "round_robin"
  /\ args = [num_teams |-> 7, bye_team |-> None]
  /\ ret.kind = "return"
  /\ Len(ret.value) = 7
  /\ ret.value[1][1] = <<1, 8>>

(***************************************************************************)
(* Properties of advance_round                                             *)
(***************************************************************************)
\* the number of rounds of the round-robin schedule of n entries
ScheduleLength(n) == IF n % 2 = 0 THEN n - 1 ELSE n

\* C10: a round-robin round whose number exceeds the number of rounds of the
\* schedule is refused with an error, it is not answered with a wrapped-around
\* or empty round, and advance_round inserts no rounds row for it.
C10_NoRoundBeyondSchedule ==
  [][\A current_round \in 0..MaxRoundNumber :
       (/\ tournament.movement_type = "round-robin"
        /\ current_round + 1 > ScheduleLength(tournament.num_entries)
        /\ AdvanceRoundOf(current_round))
       => /\ handle_round_robin(tournament.num_entries, current_round + 1).kind = "raise"
          /\ response'.status >= 400
          /\ rounds' = rounds]_vars

\* every board of round 1 has a result and the request for one round more
\* than the schedule holds has been refused
C10_Witness ==
  /\ tournament.movement_type = "round-robin"
  /\ CountRounds(1) > 0
  /\ CountResults(1) >= CountRounds(1) * tournament.boards_per_round
  /\ response = HttpError(500, "ValueError: No more rounds in round robin")

(***************************************************************************)
(* Properties of swiss_pairing and _greedy_swiss_pairing                   *)
(***************************************************************************)
\* the teams of a roster
TeamsOf(team_ids) == {team_ids[k] : k \in 1..Len(team_ids)}

\* the matches of a list of table assignments: the pairs seated in the open rooms
MatchesOf(tables) ==
  {{tables[k][3], tables[k][4]} : k \in {l \in 1..Len(tables) : tables[l][2] = "open"}}

\* the teams that a list of table assignments seats
SeatedIn(tables) == UNION MatchesOf(tables)

\* the pairing of the whole roster that a Swiss round selects: its matches and,
\* when two teams are left without a table, the bye pair they form
SelectedPairing(team_ids, tables) ==
  LET unseated == TeamsOf(team_ids) \ SeatedIn(tables)
  IN  MatchesOf(tables) \cup (IF Cardinality(unseated) = 2 THEN {unseated} ELSE {})

\* every way to split a set of teams into pairs, by brute force
RECURSIVE AllPairings(_)
AllPairings(S) ==
  IF S = {} THEN {{}}
  ELSE LET a == CHOOSE x \in S : TRUE
       IN  UNION {{P \cup {{a, b}} : P \in AllPairings(S \ {a, b})} : b \in S \ {a}}

\* the squared difference of the standings of the two teams of a pair
SquaredDifference(standings, pair) ==
  LET a == CHOOSE x \in pair : TRUE
      b == CHOOSE y \in pair : y # a
      d == get(standings, a, 0) - get(standings, b, 0)
  IN  d * d

RECURSIVE TotalSquaredDifference(_, _)
TotalSquaredDifference(standings, P) ==
  IF P = {} THEN 0
  ELSE LET pair == CHOOSE q \in P : TRUE
       IN  SquaredDifference(standings, pair) + TotalSquaredDifference(standings, P \ {pair})

\* swiss_pairing was called on an even roster and milp succeeded
OptimizerPath ==
  /\ fn = "swiss_pairing"
  /\ Len(args.team_ids) >= 2
  /\ Len(args.team_ids) % 2 = 0
  /\ args.milp.success

EmptyHistory ==
  \A t \in DOMAIN args.previous_opponents : args.previous_opponents[t] = <<>>

\* C11: on the optimizer path, with an empty opponent history and an even
\* roster, the pairing that swiss_pairing selects is a perfect matching of the
\* roster of minimum weight: its total squared standings difference is not
\* higher than that of any other perfect matching.
C11_SwissMinimumWeight ==
  (OptimizerPath /\ EmptyHistory) =>
    /\ ret.kind = "return"
    /\ LET selected == SelectedPairing(args.team_ids, ret.value)
           pairings == AllPairings(TeamsOf(args.team_ids))
           weight == TotalSquaredDifference(args.standings, selected)
       IN  /\ selected \in pairings
           /\ \A P \in pairings : weight <= TotalSquaredDifference(args.standings, P)

\* six teams without history have been paired at a positive total that some
\* other pairing of the six exceeds
C11_Witness ==
  /\ OptimizerPath
  /\ EmptyHistory
  /\ Len(args.team_ids) = 6
  /\ ret.kind = "return"
  /\ TotalSquaredDifference(args.standings, SelectedPairing(args.team_ids, ret.value)) > 0
  /\ \E P \in AllPairings(TeamsOf(args.team_ids)) :
       TotalSquaredDifference(args.standings, P)
         > TotalSquaredDifference(args.standings, SelectedPairing(args.team_ids, ret.value))

\* a and b appear in each other's opponent history
HaveMet(previous_opponents, pair) ==
  \E a \in pair, b \in pair :
    /\ a # b
    /\ InList(b, get(previous_opponents, a, <<>>))

\* the matches of a list of table assignments that repeat an earlier match
Rematches(previous_opponents, tables) ==
  {pair \in MatchesOf(tables) : HaveMet(previous_opponents, pair)}

\* C12: swiss_pairing never pairs two competitors who appear in each other's
\* opponent history whenever a perfect matching of the roster without such a
\* rematch exists (stated for the optimizer path, where milp succeeded).
C12_SwissNoAvoidableRematch ==
  (/\ OptimizerPath
   /\ \E P \in AllPairings(TeamsOf(args.team_ids)) :
        \A pair \in P : ~HaveMet(args.previous_opponents, pair))
  => /\ ret.kind = "return"
     /\ Rematches(args.previous_opponents, ret.value) = {}

\* _greedy_swiss_pairing has run, called directly or by swiss_pairing after
\* milp failed on an accepted roster
GreedyPath ==
  \/ fn = "_greedy_swiss_pairing"
  \/ /\ fn = "swiss_pairing"
     /\ Len(args.team_ids) >= 2
     /\ Len(args.team_ids) % 2 = 0
     /\ ~args.milp.success

\* C13: the pairing that _greedy_swiss_pairing returns contains at most one
\* pair of competitors who have already faced each other (stated for the
\* rosters that can be paired with at most one rematch, so that rematches no
\* pairing can avoid do not count).
C13_GreedyAtMostOneRematch ==
  (/\ GreedyPath
   /\ \E P \in AllPairings(TeamsOf(args.team_ids)) :
        Cardinality({pair \in P : HaveMet(args.previous_opponents, pair)}) <= 1)
  => /\ ret.kind = "return"
     /\ Cardinality(Rematches(args.previous_opponents, ret.value)) <= 1

\* a Swiss round has been returned, by the optimizer path or by the greedy one
SwissRound ==
  /\ fn \in {"swiss_pairing", "_greedy_swiss_pairing"}
  /\ ret.kind = "return"

\* the combined standings of the two competitors of a table assignment
CombinedStandings(standings, row) == get(standings, row[3], 0) + get(standings, row[4], 0)

\* C14: in every Swiss round output, of the optimizer path and of the greedy
\* path alike, table numbers follow descending combined standings: a match at
\* a lower table number has a sum of standings greater than or equal to that
\* of a match at a higher table number.
C14_TablesByCombinedStandings ==
  SwissRound =>
    \A k \in 1..Len(ret.value), l \in 1..Len(ret.value) :
      ret.value[k][1] < ret.value[l][1] =>
        CombinedStandings(args.standings, ret.value[k])
          >= CombinedStandings(args.standings, ret.value[l])

\* the teams of the matchups that handle_swiss returns
TeamsOfMatchups(matchups) ==
  UNION {{matchups[k][1], matchups[k][2]} : k \in 1..Len(matchups)}

\* C15: for an odd number of real competitors a Swiss round is computed and
\* not refused: swiss_pairing returns table assignments that seat all the
\* competitors but one, and so does handle_swiss for the roster 1..num_entries.
C15_SwissOddRoster ==
  /\ (fn = "swiss_pairing" /\ Len(args.team_ids) >= 3 /\ Len(args.team_ids) % 2 = 1) =>
       /\ ret.kind = "return"
       /\ Cardinality(SeatedIn(ret.value)) = Len(args.team_ids) - 1
  /\ (fn = "handle_swiss" /\ args.num_entries >= 3 /\ args.num_entries % 2 = 1) =>
       /\ ret.kind = "return"
       /\ Cardinality(TeamsOfMatchups(ret.value)) = args.num_entries - 1

\* the rows of a list of table assignments that seat team c
RowsOf(tables, c) == {k \in 1..Len(tables) : tables[k][3] = c \/ tables[k][4] = c}

\* every table of the list has one open and one closed assignment, of the
\* same two teams with their seats swapped
OpenAndClosed(tables) ==
  \A k \in 1..Len(tables) :
    /\ tables[k][3] # tables[k][4]
    /\ Cardinality({l \in 1..Len(tables) : tables[l][1] = tables[k][1]}) = 2
    /\ \E l \in 1..Len(tables) :
         /\ tables[l][1] = tables[k][1]
         /\ {tables[l][2], tables[k][2]} = {"open", "closed"}
         /\ tables[l][3] = tables[k][4]
         /\ tables[l][4] = tables[k][3]

\* in a round over the teams of roster every real competitor is in exactly one
\* match, but for the one that meets the bye team when the roster holds it,
\* and the bye team is given no table
OneMatchEach(tables, roster, bye_team) ==
  LET real == roster \ {bye_team}
      idle == {c \in real : RowsOf(tables, c) = {}}
  IN  /\ OpenAndClosed(tables)
      /\ SeatedIn(tables) \subseteq real
      /\ \A c \in real \ idle : Cardinality(RowsOf(tables, c)) = 2
      /\ Cardinality(idle) = (IF bye_team \in roster THEN 1 ELSE 0)

\* the roster of a round robin with tables: the teams and, when their number
\* is odd, the bye team
RoundRobinRoster(a) ==
  (1..a.num_teams) \cup (IF a.num_teams % 2 = 1 THEN {ByeOf(a)} ELSE {})

\* C16: in every round produced by round_robin_with_tables or by swiss_pairing
\* (optimizer path or greedy path) over an even roster that may include the
\* bye team, every real competitor is in exactly one match (one open and one
\* closed assignment with the same opponent) or is the one competitor paired
\* with the bye; none is in two matches and none is left out.
C16_OneMatchPerCompetitor ==
  /\ (/\ fn \in {"swiss_pairing", "_greedy_swiss_pairing"}
      /\ Len(args.team_ids) >= 2
      /\ Len(args.team_ids) % 2 = 0) =>
       /\ ret.kind = "return"
       /\ OneMatchEach(ret.value, TeamsOf(args.team_ids), args.bye_team)
  /\ (/\ fn = "round_robin_with_tables"
      /\ args.num_teams >= 2
      /\ (args.num_teams % 2 = 1 => ByeOf(args) \notin 1..args.num_teams)) =>
       /\ ret.kind = "return"
       /\ \A r \in 1..Len(ret.value) :
            OneMatchEach(ret.value[r], RoundRobinRoster(args),
                         IF args.num_teams % 2 = 1 THEN ByeOf(args) ELSE args.bye_team)

\* the greedy path has paired eight teams, one of them the bye team, after
\* rounds played: three matches and one competitor without a table
C16_Witness ==
  /\ fn = "swiss_pairing"
  /\ ~args.milp.success
  /\ Len(args.team_ids) = 8
  /\ args.bye_team = 8
  /\ args.previous_opponents[1] # <<>>
  /\ ret.kind = "return"
  /\ Len(ret.value) = 6
  /\ Cardinality(SeatedIn(ret.value)) = 6

(***************************************************************************)
(* Properties of knockout_bracket                                          *)
(***************************************************************************)
\* n is 2^k for some k >= 1
RECURSIVE PowerOfTwo(_)
PowerOfTwo(n) == n = 2 \/ (n > 2 /\ n % 2 = 0 /\ PowerOfTwo(n \div 2))

\* C17: knockout_bracket fails with an error for every roster whose size is
\* not an exact power of two (5, 6, 7, ...) and returns a bracket for every
\* roster size that is a power of two and at least 2 (4, 8, ...).
C17_KnockoutPowerOfTwo ==
  fn = "knockout_bracket" =>
    /\ (PowerOfTwo(Len(args.team_ids)) => ret.kind = "return" /\ Len(ret.value) >= 1)
    /\ ((Len(args.team_ids) # 1 /\ ~PowerOfTwo(Len(args.team_ids))) => ret.kind = "raise")

\* a bracket of three rounds, of four, two and one tables, has been returned
\* for eight teams
C17_Witness ==
  /\ fn = "knockout_bracket"
  /\ Len(args.team_ids) = 8
  /\ ret.kind = "return"
  /\ Len(ret.value) = 3
  /\ Len(ret.value[1]) = 4
  /\ Len(ret.value[3]) = 1

\* C18: knockout_bracket(team_ids, seeded=True) pairs, in the first round,
\* rank 1 with rank N, rank 2 with rank N - 1, and so on; for [1, 2, 3, 4] the
\* first round is [(1, 1, 4), (2, 2, 3)] and the final is [(1, 1, 2)].
C18_KnockoutSeededPairs ==
  (fn = "knockout_bracket" /\ args.seeded /\ ret.kind = "return") =>
    /\ \A k \in 1..(Len(args.team_ids) \div 2) :
         ret.value[1][k] = <<k, args.team_ids[k], args.team_ids[Len(args.team_ids) + 1 - k]>>
    /\ (args.team_ids = <<1, 2, 3, 4>> =>
          ret.value = <<<<<<1, 1, 4>>, <<2, 2, 3>>>>, <<<<1, 1, 2>>>>>>)

(***************************************************************************)
(* Properties of all the pairing functions                                 *)
(***************************************************************************)
\* C19: every pairing function is deterministic: a second call of
\* assign_table_pairs, round_robin, _greedy_swiss_pairing, knockout_bracket
\* (with its default arguments) or handle_rotation with the arguments of the
\* first call returns what the first call returned.
C19_PairingDeterministic ==
  [][(/\ fn \in {"assign_table_pairs", "round_robin", "_greedy_swiss_pairing",
                 "knockout_bracket", "handle_rotation"}
      /\ (fn = "knockout_bracket" => ~args.seeded)
      /\ fn' = fn
      /\ args' = args)
     => ret' = ret]_vars

\* C20: no pairing function mutates its inputs: after assign_table_pairs,
\* swiss_pairing, _greedy_swiss_pairing or knockout_bracket returns or raises,
\* the caller's team_ids list (its order included), standings map and
\* previous_opponents map are what they were at the call.
C20_InputsNotMutated ==
  /\ fn \in {"assign_table_pairs", "swiss_pairing", "_greedy_swiss_pairing",
             "knockout_bracket"} =>
       caller.team_ids = args.team_ids
  /\ fn \in {"swiss_pairing", "_greedy_swiss_pairing"} =>
       /\ caller.standings = args.standings
       /\ caller.previous_opponents = args.previous_opponents

\* an unseeded bracket of four has been drawn in another order than that of
\* the roster, which the caller still holds as it was
C20_Witness ==
  /\ fn = "knockout_bracket"
  /\ ~args.seeded
  /\ Len(args.team_ids) = 4
  /\ ret.kind = "return"
  /\ ret.value[1][1] # <<1, args.team_ids[1], args.team_ids[2]>>
  /\ caller.team_ids = args.team_ids

(***************************************************************************)
(* Properties of the table assignments                                     *)
(***************************************************************************)
\* a pair of teams involves the bye team
WithBye(m, bye_team) == bye_team # None /\ (m[1] = bye_team \/ m[2] = bye_team)

\* the tables of a round are numbered 1..k, each with one open and one closed
\* assignment of the same two teams with their seats swapped
DenseTables(tables, k) ==
  /\ Len(tables) = 2 * k
  /\ {tables[i][1] : i \in 1..Len(tables)} = 1..k
  /\ OpenAndClosed(tables)

\* the tables of a round are those of the matches of list that do not involve
\* the bye team, and of no other match
TablesOfMatches(tables, list, bye_team) ==
  LET M == {list[i] : i \in {j \in 1..Len(list) : ~WithBye(list[j], bye_team)}}
  IN  /\ DenseTables(tables, Cardinality(M))
      /\ \A m \in M :
           \E t \in 1..Cardinality(M) :
             /\ InList(<<t, "open", m[1], m[2]>>, tables)
             /\ InList(<<t, "closed", m[2], m[1]>>, tables)
      /\ \A i \in 1..Len(tables) : ~WithBye(<<tables[i][3], tables[i][4]>>, bye_team)

\* the consecutive pairs of an even roster
ConsecutivePairs(team_ids) ==
  [i \in 1..(Len(team_ids) \div 2) |-> <<team_ids[2 * i - 1], team_ids[2 * i]>>]

\* C21: in the output of assign_table_pairs, round_robin_with_tables and
\* swiss_pairing every match that does not involve the bye team has exactly
\* two assignments with one table number, (t, 'open', a, b) and
\* (t, 'closed', b, a), a match with the bye team has none, and the table
\* numbers of a round are exactly 1..k, k the number of matches without bye.
C21_TablesOpenClosedDense ==
  /\ (fn = "assign_table_pairs" /\ ret.kind = "return") =>
       TablesOfMatches(ret.value, ConsecutivePairs(args.team_ids), args.bye_team)
  /\ (fn = "round_robin_with_tables" /\ ret.kind = "return") =>
       \A r \in 1..Len(ret.value) :
         TablesOfMatches(ret.value[r],
                         round_robin(args.num_teams, args.bye_team).value[r],
                         IF args.num_teams % 2 = 1 THEN ByeOf(args) ELSE args.bye_team)
  /\ (fn = "swiss_pairing" /\ ret.kind = "return") =>
       LET n == Len(args.team_ids)
           k == IF InList(args.bye_team, args.team_ids) THEN n \div 2 - 1 ELSE n \div 2
       IN  /\ DenseTables(ret.value, k)
           /\ \A i \in 1..Len(ret.value) :
                ~WithBye(<<ret.value[i][3], ret.value[i][4]>>, args.bye_team)

\* assign_table_pairs has dropped the first pair of six teams, which holds the
\* bye team, and seated the two other pairs at tables 1 and 2
C21_Witness ==
  /\ fn = "assign_table_pairs"
  /\ args.team_ids = <<1, 2, 3, 4, 5, 6>>
  /\ args.bye_team = 1
  /\ ret.kind = "return"
  /\ ret.value = <<<<1, "open", 3, 4>>, <<1, "closed", 4, 3>>,
                   <<2, "open", 5, 6>>, <<2, "closed", 6, 5>>>>

(***************************************************************************)
(* Properties of the rotation fallback                                     *)
(***************************************************************************)
\* the matchups of the list that competitor c is in
MatchupsOf(matchups, c) ==
  {k \in 1..Len(matchups) : matchups[k][1] = c \/ matchups[k][2] = c}

\* C22: for every roster of two or more competitors and every round number the
\* matchups of handle_rotation pair no competitor with itself and place no
\* competitor in two matchups of the round.
C22_RotationNoSelfNoRepeat ==
  (fn = "handle_rotation" /\ args.num_entries >= 2) =>
    /\ ret.kind = "return"
    /\ \A k \in 1..Len(ret.value) : ret.value[k][1] # ret.value[k][2]
    /\ \A c \in 1..args.num_entries : Cardinality(MatchupsOf(ret.value, c)) <= 1

(***************************************************************************)
(* Properties of the VP and IMP scales                                     *)
(***************************************************************************)
\* C23: for a fixed number of boards the VP of side A does not decrease as the
\* signed margin grows: it is 10 at margin 0, at least 10 for a positive
\* margin, at most 20, and not higher than the VP of the margin one above.
C23_VpMonotoneInMargin ==
  (fn = "calculate_vp" /\ args.num_boards > 0) =>
    /\ ret.kind = "return"
    /\ args.a - args.b = 0 => ret.value[1] = 10 * FP
    /\ args.a - args.b > 0 => ret.value[1] >= 10 * FP
    /\ ret.value[1] <= 20 * FP
    /\ ret.value[1] <= calculate_vp(args.a + 1, args.b, args.num_boards).value[1]

\* C24: the absolute value of calculate_imp(a, b) does not decrease as |a - b|
\* grows: it is 0 below a difference of 20, lies in 0..24, and is 24 only for
\* a difference of 4000 or more.
C24_ImpMonotoneInDifference ==
  fn = "calculate_imp" =>
    /\ ret.kind = "return"
    /\ LET diff == abs(args.a - args.b)
           imp == abs(ret.value)
       IN  /\ diff < 20 => imp = 0
           /\ imp \in 0..24
           /\ imp = 24 => diff >= 4000
           /\ \A c \in Scores :
                abs(c - args.b) >= diff => abs(calculate_imp(c, args.b)) >= imp

(***************************************************************************)
(* Properties of the tournament handlers                                   *)
(***************************************************************************)
\* table has a stored result for every board of the round
TableComplete(table, round_number) ==
  \A board_number \in BoardsOfRound(round_number) :
    \E b \in board_results : SameBoard(b, table, round_number, board_number)

\* C25: advance_round stores the matchups of round r + 1 only when every
\* table (rounds row) of round r has a stored result for each of its
\* boards_per_round boards; when a board of a table of round r lacks its
\* result no rounds row is inserted.
C25_AdvanceOnlyWhenRoundComplete ==
  [][(tournament # NoTournament /\ Len(rounds') > Len(rounds)) =>
       LET r == rounds'[Len(rounds')].round_number - 1
       IN  \A i \in 1..Len(rounds) :
             rounds[i].round_number = r => TableComplete(rounds[i].table_number, r)]_vars

\* the pairs of opponent tables of a round: tables 2k - 1 and 2k, both with a
\* rounds row
OpponentTables(round_number) ==
  {p \in {<<2 * k - 1, 2 * k>> : k \in 1..MaxEntries} :
     /\ rounds_of_table(rounds, p[1], round_number) # <<>>
     /\ rounds_of_table(rounds, p[2], round_number) # <<>>}

\* the status of each rounds row of a table
StatusOf(table, round_number) ==
  LET rows == rounds_of_table(rounds, table, round_number)
  IN  {rows[i].status : i \in 1..Len(rows)}

\* a table has submitted the round once the status of its row is not pending
HasSubmitted(table, round_number) == "pending" \notin StatusOf(table, round_number)

MatchResultsOf(table, round_number) ==
  {m \in match_results : m.table_id = table /\ m.round_number = round_number}

\* C26: for two opponent tables of a round, match_results has no row of
\* theirs while only one of them has submitted the round, and once both have
\* submitted it has one row for each, the two with opposite IMP totals and
\* VPs that sum to 20, and both rounds rows are 'complete_with_result'.
C26_MatchResultWhenBothSubmitted ==
  \A round_number \in 1..MaxSubmitRound :
    \A p \in OpponentTables(round_number) :
      IF HasSubmitted(p[1], round_number) /\ HasSubmitted(p[2], round_number)
      THEN /\ \E m1 \in match_results, m2 \in match_results :
                /\ MatchResultsOf(p[1], round_number) = {m1}
                /\ MatchResultsOf(p[2], round_number) = {m2}
                /\ m1.imps = 0 - m2.imps
                /\ m1.vp + m2.vp = 20 * FP
           /\ StatusOf(p[1], round_number) = {"complete_with_result"}
           /\ StatusOf(p[2], round_number) = {"complete_with_result"}
      ELSE /\ MatchResultsOf(p[1], round_number) = {}
           /\ MatchResultsOf(p[2], round_number) = {}

\* the board results stored for a table
ResultsOfTable(table) == {b \in board_results : b.table_id = table}

\* a submit_score or update_score request whose token is unknown or expired
\* (NoToken) or was issued for another table than table
RequestWithoutTokenOf(table) ==
  \/ \E table_id \in TableIds, round_number \in 0..MaxSubmitRound,
        input \in ScoreInputs, auth \in ({NoToken} \cup TableIds) \ {table} :
       \E board_number \in BoardsOfRound(round_number) :
         SubmitScoreOf(table_id, round_number, board_number, input, auth)
  \/ \E row \in board_results, input \in UpdateInputs,
        auth \in ({NoToken} \cup TableIds) \ {table} :
       UpdateScoreOf(row, input, auth)

\* C27: a submit_score or update_score request whose token was issued for
\* another table, is unknown or has expired leaves every board_results row of
\* table T as it is: the results of T are created and modified only by
\* requests that carry an unexpired token issued for T.
C27_ResultsChangeOnlyWithOwnToken ==
  [][\A table \in 1..MaxEntries :
       RequestWithoutTokenOf(table) => ResultsOfTable(table)' = ResultsOfTable(table)]_vars

\* the VP that a competitor has earned: the rows of match_results of the
\* tables at which it sat as entry1 (North-South, the side whose IMPs and VP
\* calculate_match_result stores for the table)
EarnedVp(c) ==
  sum_vp({m \in match_results :
            LET row == rounds_of_table(rounds, m.table_id, m.round_number)
            IN  row # <<>> /\ Head(row).entry1_id = c})

\* C28: the standings that handle_swiss passes to swiss_pairing give every
\* competitor the sum of the victory points that it earned in the matches of
\* the earlier rounds, at whatever tables these were played.
C28_StandingsAreEarnedVp ==
  tournament.movement_type = "swiss" =>
    LET standings == handle_swiss_standings(tournament.num_entries,
                                            standings_query(match_results))
    IN  \A c \in 1..tournament.num_entries : get(standings, c, 0) = EarnedVp(c)

\* the positions in the rounds table of the rows of a round
RowsOfRound(round_number) == {i \in 1..Len(rounds) : rounds[i].round_number = round_number}

\* C29: after any sequence of setup_tournament and advance_round calls, also
\* with advance_round repeated for one currentRound, the rounds table has at
\* most one row for each round number and table number, and the table numbers
\* of each round are 1..k without gaps.
C29_RoundsRowsUniqueAndDense ==
  \A i \in 1..Len(rounds) :
    LET rows == RowsOfRound(rounds[i].round_number)
        tables == {rounds[j].table_number : j \in rows}
    IN  /\ Cardinality(rows) = Cardinality(tables)
        /\ tables = 1..Cardinality(tables)

\* C30: after any sequence of submit_score and swap_tables calls board_results
\* holds at most one row for each (table, round, board): a second submission
\* for the same table, round and board replaces the stored row and
\* swap_tables exchanges the rows of the two tables without merging any.
C30_OneRowPerTableRoundBoard ==
  \A b1 \in board_results, b2 \in board_results :
    SameBoard(b1, b2.table_id, b2.round_number, b2.board_number) => b1 = b2

(***************************************************************************)
(* Initial states                                                          *)
(***************************************************************************)
InitPure ==
  /\ fn = "none"
  /\ args = <<>>
  /\ ret = NoCall
  /\ caller = <<>>
  /\ tournament = NoTournament
  /\ rounds = <<>>
  /\ board_results = {}
  /\ match_results = {}
  /\ response = HttpOk

NextScore == CallCalculateBridgeScore

SpecScore == InitPure /\ [][NextScore]_vars

NextImp == CallCalculateImp

SpecImp == InitPure /\ [][NextImp]_vars

NextVp == CallCalculateVp

SpecVp == InitPure /\ [][NextVp]_vars

NextVul == CallCalculateVulnerability

SpecVul == InitPure /\ [][NextVul]_vars

NextRoundRobin == CallRoundRobin \/ CallHandleRoundRobin

SpecRoundRobin == InitPure /\ [][NextRoundRobin]_vars

NextSwiss ==
  \/ CallSwissPairing
  \/ CallGreedySwissPairing
  \/ CallRoundRobinWithTables
  \/ CallHandleSwiss

SpecSwiss == InitPure /\ [][NextSwiss]_vars

NextKnockout == CallKnockoutBracket \/ CallAssignTablePairs

SpecKnockout == InitPure /\ [][NextKnockout]_vars

NextPairing ==
  \/ CallAssignTablePairs
  \/ CallRoundRobin
  \/ CallSwissPairing
  \/ CallGreedySwissPairing
  \/ CallKnockoutBracket
  \/ CallHandleRotation
  \/ CallAgain

SpecPairing == InitPure /\ [][NextPairing]_vars

NextTables ==
  \/ CallAssignTablePairs
  \/ CallRoundRobinWithTables
  \/ CallSwissPairing

SpecTables == InitPure /\ [][NextTables]_vars

Init == InitPure

Next == SetupTournament \/ SubmitScore \/ AdvanceRound

Spec == Init /\ [][Next]_vars

NextMatch == SetupTournament \/ SubmitScore \/ SubmitRound

SpecMatch == Init /\ [][NextMatch]_vars

NextScores == SetupTournament \/ SubmitScore \/ UpdateScore \/ SwapTables

SpecScores == Init /\ [][NextScores]_vars

NextSwissRounds ==
  \/ SetupSwissTournament
  \/ SubmitRound
  \/ AdvanceSwissRound

SpecSwissRounds == Init /\ [][NextSwissRounds]_vars

====
